---------------------------- MODULE Spec2Model ----------------------------
(***************************************************************************)
(* NetSentry monitoring backend: the check engine (MonitoringService), the *)
(* Device and Alert records, the alert side effects (email, alert:new) and *)
(* the cron-driven check cycle (MonitoringJob).                            *)
(*                                                                         *)
(* JavaScript runs one callback at a time; a task can be interleaved with  *)
(* another one only where it awaits.  Every action below is the code       *)
(* between two awaits of one task.                                         *)
(***************************************************************************)
EXTENDS Integers, Sequences, FiniteSets, TLC

(***************************************************************************)
(* Bounds of the model.                                                    *)
(***************************************************************************)
\* number of cron ticks of the device-monitoring job that are explored
MaxTicks == 2
\* number of collaborator failures (database, SMTP, socket) that are explored
MaxFaults == 1

\* number of calls of MonitoringJob.start that are explored
MaxStarts == 2
\* number of firings of the cron expression of the check cycle that are explored
MaxFires == 3
\* number of ticks of the four jobs and of requests to the cleanup route, all
\* together, that are explored
MaxJobTicks == 3
\* number of requests to the device routes, scheduled checks included
MaxRequests == 3
\* number of tokens that login and register issue
MaxLogins == 2
\* number of requests that switch isActive while the cycles run
MaxToggles == 2

\* the tasks that can be in flight at the same time
Runs == {1, 2}

(***************************************************************************)
(* JavaScript values.                                                      *)
(***************************************************************************)
\* null in a string-valued field
NULL == "null"
\* null in responseTime
NoTime == 0 - 1
\* null in a DATE field
NoDate == 0 - 1
\* JavaScript truthiness of a string-or-null value
Truthy(v) == v # NULL /\ v # ""

(***************************************************************************)
(* The transports: what ping.promise.probe and axios.get can answer.       *)
(* Error messages of the two libraries are non-empty strings.  A ping      *)
(* reply carries its time in tenths of a millisecond (40.3 ms is 403), an  *)
(* HTTP answer its elapsed time in milliseconds.                           *)
(***************************************************************************)
PingOutcomes ==
    { [kind |-> "reply", alive |-> TRUE,  time |-> 403],
      [kind |-> "reply", alive |-> TRUE,  time |-> 10004],
      [kind |-> "reply", alive |-> TRUE,  time |-> 15000],
      [kind |-> "reply", alive |-> FALSE, time |-> NoTime],
      [kind |-> "throw", code |-> "ENOENT", status |-> 0, message |-> "spawn ping ENOENT"] }

HttpOutcomes ==
    { [kind |-> "response", status |-> 200, elapsed |-> 40],
      [kind |-> "response", status |-> 200, elapsed |-> 1500],
      [kind |-> "response", status |-> 404, elapsed |-> 40],
      [kind |-> "response", status |-> 503, elapsed |-> 40],
      [kind |-> "throw", code |-> "ECONNREFUSED", status |-> 0, message |-> "connect ECONNREFUSED"],
      [kind |-> "throw", code |-> "ETIMEDOUT", status |-> 0, message |-> "connect ETIMEDOUT"] }

\* validateStatus of the axios.get call: a status it rejects is thrown
validateStatus(status) == status < 500

\* axios.get(fullUrl, {timeout, validateStatus}): resolves or throws
axiosGet(o) ==
    IF o.kind = "response" /\ ~validateStatus(o.status)
    THEN [kind |-> "throw", code |-> "ERR_BAD_RESPONSE", status |-> o.status,
          message |-> "Request failed with status code"]
    ELSE o

\* Math.round of a time given in tenths of a millisecond
Round(tenths) == (tenths + 5) \div 10

\* checkPing whose failures carry no error
checkPing_NoError(o) ==
    IF o.kind = "throw"
    THEN [success |-> FALSE, responseTime |-> NoTime, error |-> NULL]
    ELSE [success |-> o.alive,
          responseTime |-> IF o.alive THEN Round(o.time) ELSE NoTime,
          error |-> NULL]

\* MonitoringService.checkPing
checkPing(o) ==
    IF o.kind = "throw"
    THEN [success |-> FALSE, responseTime |-> NoTime, error |-> o.message]
    ELSE [success |-> o.alive,
          responseTime |-> IF o.alive THEN Round(o.time) ELSE NoTime,
          error |-> IF o.alive THEN NULL ELSE "Host unreachable"]

\* `HTTP ${response.status}`
HttpError(status) == IF status = 404 THEN "HTTP 404" ELSE "HTTP 4xx"


\* checkHttp whose catch keeps only the two named error codes
checkHttp_NoMessage(o) ==
    LET r == axiosGet(o) IN
    IF r.kind = "throw"
    THEN [success |-> FALSE, responseTime |-> NoTime, statusCode |-> r.status,
          error |-> IF r.code = "ECONNREFUSED" THEN "Connection refused"
                    ELSE IF r.code = "ETIMEDOUT" THEN "Connection timeout"
                    ELSE NULL]
    ELSE [success |-> r.status < 400,
          responseTime |-> r.elapsed,
          statusCode |-> r.status,
          error |-> IF r.status >= 400 THEN HttpError(r.status) ELSE NULL]

\* MonitoringService.checkHttp
checkHttp(o) ==
    LET r == axiosGet(o) IN
    IF r.kind = "throw"
    THEN [success |-> FALSE, responseTime |-> NoTime, statusCode |-> r.status,
          error |-> IF r.code = "ECONNREFUSED" THEN "Connection refused"
                    ELSE IF r.code = "ETIMEDOUT" THEN "Connection timeout"
                    ELSE r.message]
    ELSE [success |-> r.status < 400,
          responseTime |-> r.elapsed,
          statusCode |-> r.status,
          error |-> IF r.status >= 400 THEN HttpError(r.status) ELSE NULL]

(***************************************************************************)
(* The Device table.                                                       *)
(***************************************************************************)
Devices == {1, 2}

\* a row as Device.create leaves it (defaultValue of each column)
NewDevice(id, checkUrl) ==
    [id |-> id, checkUrl |-> checkUrl, isActive |-> TRUE,
     status |-> "unknown", responseTime |-> NoTime, lastCheck |-> NoDate,
     consecutiveFailures |-> 0, lastError |-> NULL]

\* updateStatus that keeps the count of failures when the device is found
updateStatus_NoReset(inst, status, responseTime, error, now) ==
    [inst EXCEPT
       !.status = status,
       !.responseTime = responseTime,
       !.lastCheck = now,
       !.consecutiveFailures =
           IF status = "offline" \/ status = "warning" THEN @ + 1 ELSE @,
       !.lastError =
           IF status = "offline" \/ status = "warning" THEN error ELSE NULL]

\* Device.prototype.updateStatus, on the instance in memory
updateStatus(inst, status, responseTime, error, now) ==
    [inst EXCEPT
       !.status = status,
       !.responseTime = responseTime,
       !.lastCheck = now,
       !.consecutiveFailures =
           IF status = "offline" \/ status = "warning" THEN @ + 1 ELSE 0,
       !.lastError =
           IF status = "offline" \/ status = "warning" THEN error ELSE NULL]

\* the threshold of checkDevice above which a successful probe is a warning
SlowThreshold == 1000


\* StatusOf with the threshold itself counted as slow
StatusOf_AtThreshold(result) ==
    LET first == IF result.success THEN "online"
                 ELSE IF Truthy(result.error) THEN "offline"
                 ELSE "unknown"
    IN IF first = "online" /\ result.responseTime >= SlowThreshold
       THEN "warning" ELSE first

\* checkDevice: the status of a probe result
StatusOf(result) ==
    LET first == IF result.success THEN "online"
                 ELSE IF Truthy(result.error) THEN "offline"
                 ELSE "unknown"
    IN IF first = "online" /\ result.responseTime > SlowThreshold
       THEN "warning" ELSE first


\* AlertRule that raises the disaster alert on every offline check
AlertRule_OfflineRepeats(oldStatus, status) ==
    IF status = "offline" /\ oldStatus # "unknown" /\ oldStatus # "warning" THEN "disaster"
    ELSE IF status = "warning" /\ oldStatus # "warning" THEN "warning"
    ELSE IF status = "online" /\ (oldStatus = "offline" \/ oldStatus = "warning")
         THEN "information"
    ELSE "none"

\* AlertRule that raises the warning alert on every warning check
AlertRule_WarningRepeats(oldStatus, status) ==
    IF oldStatus = "online" /\ status = "offline" THEN "disaster"
    ELSE IF status = "warning" THEN "warning"
    ELSE IF status = "online" /\ (oldStatus = "offline" \/ oldStatus = "warning")
         THEN "information"
    ELSE "none"

\* AlertRule that raises the disaster alert on every check that ends offline
AlertRule_OfflineAlways(oldStatus, status) ==
    IF status = "offline" THEN "disaster"
    ELSE IF status = "warning" /\ oldStatus # "warning" THEN "warning"
    ELSE IF status = "online" /\ (oldStatus = "offline" \/ oldStatus = "warning")
         THEN "information"
    ELSE "none"

\* AlertRule that raises the disaster alert whenever a device turns offline
AlertRule_AnyOffline(oldStatus, status) ==
    IF oldStatus # "offline" /\ status = "offline" THEN "disaster"
    ELSE IF status = "warning" /\ oldStatus # "warning" THEN "warning"
    ELSE IF status = "online" /\ (oldStatus = "offline" \/ oldStatus = "warning")
         THEN "information"
    ELSE "none"

\* checkDevice: the alert a transition asks for, "none" when it asks for none
AlertRule(oldStatus, status) ==
    IF oldStatus = "online" /\ status = "offline" THEN "disaster"
    ELSE IF status = "warning" /\ oldStatus # "warning" THEN "warning"
    ELSE IF status = "online" /\ (oldStatus = "offline" \/ oldStatus = "warning")
         THEN "information"
    ELSE "none"

\* checkDevice: the message of the alert
AlertMessage(level, result) ==
    IF level = "disaster" THEN <<"Device is unreachable">>
    ELSE IF level = "warning" THEN <<"High response time: ", result.responseTime, "ms">>
    ELSE <<"Device is back online">>

(***************************************************************************)
(* State.                                                                  *)
(***************************************************************************)
VARIABLES
    io,           \* WebSocketService.io is set (initialize has run)
    jobs,         \* MonitoringJob.jobs: the entries {name, job} pushed by start()
    initialized,  \* EmailService.initialized
    devices,      \* the devices table: id -> row
    alerts,       \* the alerts table: id -> row
    nextAlertId,  \* the autoIncrement of the alerts table
    runs,         \* the check cycles in flight: slot -> task
    mailCalls,    \* alert id -> invocations of sendAlertEmail
    outbox,       \* alert id -> mails handed to the transporter and accepted
    alertNew,     \* alert id -> alert:new events emitted by the hub
    clock,        \* Date.now(), in cron ticks
    ticks,        \* cron ticks of the device-monitoring job so far
    faults        \* collaborator failures so far

VARIABLES
    tasks         \* the tasks of node-cron: task id -> [name, running]

\* the scheduled jobs seen from outside the check engine
VARIABLES
    tickLog,      \* job name -> the outcomes of its ticks so far
    statsUpdate,  \* the stats:update events emitted so far, oldest first
    reports,      \* daily reports handed to the transporter and accepted
    cleanups      \* the cleanups done so far: who, window, table before, removed

\* the schedule of the check cycle
VARIABLES
    interval,        \* MONITORING_INTERVAL, in milliseconds
    cronExpression,  \* the expression startDeviceMonitoring hands to node-cron
    fireLog          \* the times, in seconds, at which the expression fired

cronVars == <<interval, cronExpression, fireLog>>

\* the cache (redisClient) and the requests to the device routes
VARIABLES
    isConnected,  \* RedisClient.isConnected
    cache,        \* the keys of the backend: key -> the JSON value stored
    reqs,         \* the requests in flight: slot -> where the handler is
    started,      \* requests and scheduled checks so far
    lastMutation, \* the last mutation done: kind, the cache calls made
    lastRead,     \* what the last read saw in the cache or put into it
    lastCall      \* the last call of redisClient: op, backend reachable, result

cacheVars == <<isConnected, cache, reqs, started, lastMutation, lastRead, lastCall>>

\* the state outside the engine and its jobs
\* the sessions of the users
VARIABLES
    auth          \* the tokens issued, and the answer of the last authMiddleware

\* the realtime hub (WebSocketService)
VARIABLES
    hub,          \* connectedClients, deviceSubscriptions, the sockets of io
    wire          \* the last handler of the hub: what it was given and sent

moreVars == <<auth, hub, wire>>

otherVars == <<cronVars, cacheVars, moreVars>>

restVars == <<tickLog, statsUpdate, reports, cleanups, otherVars>>

\* the state of the engine and of its jobs, for the actions outside them
engineVars == <<io, jobs, initialized, devices, alerts, nextAlertId, runs,
                mailCalls, outbox, alertNew, clock, ticks, faults, tasks,
                tickLog, statsUpdate, reports, cleanups>>

vars == <<io, jobs, initialized, devices, alerts, nextAlertId, runs,
          mailCalls, outbox, alertNew, clock, ticks, faults, tasks, restVars>>

\* the two devices of the fleet: device 1 is pinged, device 2 has a checkUrl
ConfiguredDevice(d) ==
    NewDevice(d, IF d = 1 THEN NULL ELSE "http://host/health")

\* a row that an earlier run of the process left online, with no alert
SeenOnline(row) ==
    updateStatus(row, "online", 40, NULL, 0)

\* no check yet in a task
NoCheck == [dev |-> 0]

\* a slot with no task
IdleRun == [pc |-> "idle", queue |-> <<>>, snap |-> <<>>, results |-> <<>>,
            chk |-> NoCheck]

JobNames == <<"deviceMonitoring", "statsUpdate", "dailyReport", "alertCleanup">>

\* MonitoringJob.start, the tasks: cron.schedule makes one running task per job
startTasks(ts) ==
    ts \o [i \in 1..Len(JobNames) |-> [name |-> JobNames[i], running |-> TRUE]]

\* MonitoringJob.start, the entries: this.jobs.push({name, job}) per job
startJobs(js, ts) ==
    js \o [i \in 1..Len(JobNames) |-> [name |-> JobNames[i], job |-> Len(ts) + i]]

\* MonitoringJob.stop: job.stop() for every entry of this.jobs
stopTasks(js, ts) ==
    [t \in DOMAIN ts |->
        IF \E i \in DOMAIN js : js[i].job = t
        THEN [ts[t] EXCEPT !.running = FALSE]
        ELSE ts[t]]

\* Live of a node-cron that fires no task
Live_Never(name) == {}

\* the running tasks of a job: the ones node-cron fires
Live(name) == {t \in DOMAIN tasks : tasks[t].name = name /\ tasks[t].running}

\* the engine before anything has run, whatever the devices table holds
EngineIdle ==
    /\ io = FALSE
    /\ jobs = <<>>
    /\ initialized = TRUE        \* the email settings are in the environment
    /\ alerts = <<>>
    /\ nextAlertId = 1
    /\ runs = [r \in Runs |-> IdleRun]
    /\ mailCalls = <<>>
    /\ outbox = <<>>
    /\ alertNew = <<>>
    /\ clock = 0
    /\ ticks = 0
    /\ faults = 0
    /\ tasks = <<>>
    /\ tickLog = [n \in {JobNames[i] : i \in DOMAIN JobNames} |-> <<>>]
    /\ statsUpdate = <<>>
    /\ reports = 0
    /\ cleanups = <<>>

EngineInit ==
    /\ EngineIdle
    /\ \E seen \in SUBSET Devices :
         devices = [d \in Devices |->
                      IF d \in seen THEN SeenOnline(ConfiguredDevice(d))
                      ELSE ConfiguredDevice(d)]

\* the default of MONITORING_INTERVAL, in milliseconds
DefaultInterval == 30000

\* no expression yet
NoCron == [unit |-> "none", step |-> 0]

\* the schedule before startDeviceMonitoring has run
CronIdle ==
    /\ interval = DefaultInterval
    /\ cronExpression = NoCron
    /\ fireLog = <<>>

\* the slots of the requests in flight
Reqs == {1, 2}

\* no request in a slot
IdleReq == [op |-> "none", pc |-> "idle", id |-> 0, key |-> <<>>,
            data |-> [success |-> FALSE],
            keys |-> {}, del |-> FALSE]

\* RedisClient.constructor: not connected; the backend holds no key
CacheIdle ==
    /\ isConnected = FALSE
    /\ cache = [k \in {} |-> IdleReq.data]
    /\ reqs = [r \in Reqs |-> IdleReq]
    /\ started = 0
    /\ lastMutation = [kind |-> "none", del |-> FALSE, inval |-> FALSE]
    /\ lastRead = [at |-> "none", settled |-> TRUE, fresh |-> TRUE]
    /\ lastCall = [op |-> "none", reachable |-> TRUE, result |-> NULL,
                   deleted |-> 0, threw |-> FALSE, changed |-> FALSE]

\* no request has been authenticated yet
NoAnswer == [header |-> "none", valid |-> FALSE, redis |-> TRUE,
             next |-> FALSE, status |-> 0]

\* nobody has logged in
AuthIdle == auth = [issued |-> {}, last |-> NoAnswer]

\* WebSocketService.constructor: two empty maps, and no socket yet
NoClients ==
    [connectedClients |-> [k \in {} |-> <<>>],
     deviceSubscriptions |-> [k \in {} |-> <<>>],
     sockets |-> {}, listeners |-> {}, closed |-> FALSE]

\* no handler has run
HubIdle ==
    /\ hub = NoClients
    /\ wire = [handler |-> "none", socket |-> 0, token |-> "none", device |-> 0,
               before |-> NoClients, sent |-> <<>>]

MoreIdle == AuthIdle /\ HubIdle

Init ==
    /\ EngineInit
    /\ CronIdle
    /\ CacheIdle
    /\ MoreIdle

(***************************************************************************)
(* Helpers of the actions.                                                 *)
(***************************************************************************)
RECURSIVE Ascending(_)
\* the ids of a set in ascending order (the order findAll returns rows in)
Ascending(S) ==
    IF S = {} THEN <<>>
    ELSE LET m == CHOOSE x \in S : \A y \in S : x <= y
         IN <<m>> \o Ascending(S \ {m})

\* the outcomes of a collaborator call: it works, or (within the bound) it fails
OutcomesAt(n) == IF n < MaxFaults THEN {"ok", "fail"} ELSE {"ok"}
Outcomes == OutcomesAt(faults)

\* Save that leaves the lastCheck of the row as it was
Save_KeepsDate(row, inst) ==
    [row EXCEPT !.status = inst.status,
                !.responseTime = inst.responseTime,
                !.consecutiveFailures = inst.consecutiveFailures,
                !.lastError = inst.lastError]

\* instance.save(): the row takes the values updateStatus set on the instance
Save(row, inst) ==
    [row EXCEPT !.status = inst.status,
                !.responseTime = inst.responseTime,
                !.lastCheck = inst.lastCheck,
                !.consecutiveFailures = inst.consecutiveFailures,
                !.lastError = inst.lastError]

\* Alert.create({deviceId, device, message, level, timestamp})
NewAlert(id, deviceId, level, message, now) ==
    [id |-> id, deviceId |-> deviceId, message |-> message, level |-> level,
     timestamp |-> now, acknowledged |-> FALSE, acknowledgedBy |-> NULL,
     acknowledgedAt |-> NoDate, resolved |-> FALSE, resolvedAt |-> NoDate,
     emailSent |-> FALSE]


\* Unresolved that selects the disaster alerts only
Unresolved_OnlyDisaster(deviceId) ==
    {a \in DOMAIN alerts : /\ alerts[a].deviceId = deviceId
                           /\ ~alerts[a].resolved
                           /\ alerts[a].level = "disaster"}

\* Alert.findAll({where: {deviceId, resolved: false}})
Unresolved(deviceId) ==
    {a \in DOMAIN alerts : alerts[a].deviceId = deviceId /\ ~alerts[a].resolved}

\* Alert.prototype.resolve
resolve(alert, now) == [alert EXCEPT !.resolved = TRUE, !.resolvedAt = now]


\* Mailed that mails no level
Mailed_None(level) == level = "none"

\* Mailed that mails every level
Mailed_All(level) == level \in {"disaster", "warning", "information"}

\* createAlert: the levels that are mailed
Mailed(level) == level = "disaster" \/ level = "warning"

\* ResultEntry that reports every check as returned
ResultEntry_NoError(chk) ==
    [device |-> chk.dev, error |-> FALSE, status |-> chk.status]

\* checkAllDevices: the entry pushed on results, {device, ...result} after
\* checkDevice returned and {device, error} after it threw
ResultEntry(chk) ==
    [device |-> chk.dev, error |-> chk.threw,
     status |-> IF chk.threw THEN NULL ELSE chk.status]

\* checkAllDevices: the entry is pushed and the loop goes on with the next
\* device of the cycle
NextDevice(run, chk) ==
    LET rest == Tail(run.queue) IN
    [run EXCEPT !.queue = rest,
                !.pc = IF rest = <<>> THEN "stats" ELSE "check",
                !.results = Append(@, ResultEntry(chk)),
                !.chk = [chk EXCEPT !.done = TRUE]]


\* AfterAlert that does not wait for resolveDeviceAlerts
AfterAlert_NoWait(run, chk) == NextDevice(run, chk)

\* checkDevice after createAlert has returned: the recovery branch goes on to
\* resolveDeviceAlerts, the other two branches are over
AfterAlert(run, chk) ==
    IF chk.level = "information"
    THEN [run EXCEPT !.pc = "resolve", !.chk = chk]
    ELSE NextDevice(run, chk)

\* AfterThrow without the try/catch of the loop: the error ends the cycle
AfterThrow_Abort(run, chk, fault) ==
    [run EXCEPT !.queue = <<>>, !.pc = "stats",
                !.chk = [chk EXCEPT !.faults = @ \cup {fault}, !.threw = TRUE,
                                    !.done = TRUE]]

\* checkAllDevices: checkDevice threw; the catch of the loop logs the error,
\* pushes an error entry and the loop goes on
AfterThrow(run, chk, fault) ==
    NextDevice(run, [chk EXCEPT !.faults = @ \cup {fault}, !.threw = TRUE])

\* an argument that was not passed
undefined == <<>>

\* calculateStats: the counts of the devices table
Count(status) == Cardinality({d \in DOMAIN devices : devices[d].status = status})

calculateStats ==
    [total |-> Cardinality(DOMAIN devices), online |-> Count("online"),
     offline |-> Count("offline"), warning |-> Count("warning")]

\* the payload of stats:update: {...stats, timestamp}
StatsPayload(stats, now) == stats @@ [timestamp |-> now]

\* broadcastStats(stats): nothing without io, else one stats:update event
broadcastStats(sent, stats, now) ==
    IF io THEN Append(sent, StatsPayload(stats, now)) ELSE sent

(***************************************************************************)
(* Application.initialize: setupWebSocket, then setupBackgroundJobs.       *)
(***************************************************************************)
AppInitialize ==
    /\ ~io
    /\ io' = TRUE
    /\ jobs' = startJobs(jobs, tasks)
    /\ tasks' = startTasks(tasks)
    /\ UNCHANGED <<initialized, devices, alerts, nextAlertId, runs, mailCalls,
                   outbox, alertNew, clock, ticks, faults>>
    /\ UNCHANGED restVars

\* findActive that returns every row
findActive_All == DOMAIN devices

\* Device.findAll({where: {isActive: true}}) of checkAllDevices
findActive == {d \in DOMAIN devices : devices[d].isActive}

(***************************************************************************)
(* A cron tick of the device-monitoring job: the callback starts in a free *)
(* task, whatever earlier callbacks are doing, and checkAllDevices reads   *)
(* the active rows.                                                        *)
(***************************************************************************)
StartCycle(r) ==
    /\ Live("deviceMonitoring") # {}
    /\ ticks < MaxTicks
    /\ runs[r].pc = "idle"
    /\ \A q \in Runs : q < r => runs[q].pc # "idle"
    /\ ticks' = ticks + 1
    /\ clock' = clock + 1
    /\ \E found \in Outcomes :
         IF found = "fail"
         THEN /\ faults' = faults + 1
              /\ UNCHANGED runs
         ELSE LET active == findActive IN
              /\ faults' = faults
              /\ runs' = [runs EXCEPT ![r] =
                            [pc |-> IF active = {} THEN "stats" ELSE "check",
                             queue |-> Ascending(active),
                             snap |-> [d \in active |-> devices[d]],
                             results |-> <<>>,
                             chk |-> NoCheck]]
    /\ UNCHANGED <<io, jobs, initialized, devices, alerts, nextAlertId,
                   mailCalls, outbox, alertNew>>
    /\ UNCHANGED <<tasks, restVars>>

(***************************************************************************)
(* checkDevice up to the end of device.updateStatus: the probe, the new    *)
(* status, the write of the instance.                                      *)
(***************************************************************************)
CheckStep(r) ==
    /\ runs[r].pc = "check"
    /\ LET run == runs[r]
           d == Head(run.queue)
           inst == run.snap[d]
       IN \E o \in (IF Truthy(inst.checkUrl) THEN HttpOutcomes ELSE PingOutcomes) :
          \E saved \in Outcomes :
            LET result == IF Truthy(inst.checkUrl) THEN checkHttp(o) ELSE checkPing(o)
                status == StatusOf(result)
                oldStatus == inst.status
                after == updateStatus(inst, status, result.responseTime,
                                      result.error, clock)
                level == AlertRule(oldStatus, status)
                chk == [dev |-> d, outcome |-> o,
                        previousStatus |-> oldStatus, status |-> status,
                        success |-> result.success,
                        responseTime |-> result.responseTime,
                        persisted |-> IF saved = "ok" THEN devices'[d].status ELSE "none",
                        level |-> level, created |-> {}, mails |-> 0, emits |-> 0,
                        resolved |-> {},
                        before |-> {a \in DOMAIN alerts :
                                      alerts[a].deviceId = d /\ ~alerts[a].resolved},
                        faults |-> {}, threw |-> FALSE, done |-> FALSE]
                run1 == [run EXCEPT !.snap[d] = after]
            IN /\ devices' = IF saved = "ok"
                             THEN [devices EXCEPT ![d] = Save(@, after)]
                             ELSE devices
               /\ faults' = IF saved = "ok" THEN faults ELSE faults + 1
               /\ runs' = [runs EXCEPT ![r] =
                             IF saved = "fail" THEN AfterThrow(run1, chk, "save")
                             ELSE IF level = "none" THEN NextDevice(run1, chk)
                             ELSE [run1 EXCEPT !.pc = "create", !.chk = chk]]
    /\ UNCHANGED <<io, jobs, initialized, alerts, nextAlertId, mailCalls,
                   outbox, alertNew, clock, ticks>>
    /\ UNCHANGED <<tasks, restVars>>

(***************************************************************************)
(* createAlert up to the end of Alert.create; an alert that is not mailed  *)
(* is emitted in the same turn.                                            *)
(***************************************************************************)
CreateStep(r) ==
    /\ runs[r].pc = "create"
    /\ LET run == runs[r]
           chk == run.chk
           id == nextAlertId
           message == AlertMessage(chk.level, [responseTime |-> chk.responseTime])
           chk1 == [chk EXCEPT !.created = @ \cup {id}]
       IN \E created \in Outcomes :
          IF created = "fail"
          THEN /\ faults' = faults + 1
               /\ runs' = [runs EXCEPT ![r] = AfterThrow(run, chk, "create")]
               /\ UNCHANGED <<alerts, nextAlertId, mailCalls, outbox, alertNew>>
          ELSE /\ alerts' = alerts @@ (id :> NewAlert(id, chk.dev, chk.level, message, clock))
               /\ nextAlertId' = id + 1
               /\ mailCalls' = mailCalls @@ (id :> 0)
               /\ outbox' = outbox @@ (id :> 0)
               /\ IF Mailed(chk.level)
                  THEN /\ runs' = [runs EXCEPT ![r] =
                                     [run EXCEPT !.pc = "email", !.chk = chk1]]
                       /\ alertNew' = alertNew @@ (id :> 0)
                       /\ faults' = faults
                  ELSE \E emitted \in (IF io THEN Outcomes ELSE {"ok"}) :
                       IF emitted = "fail"
                       THEN /\ faults' = faults + 1
                            /\ alertNew' = alertNew @@ (id :> 0)
                            /\ runs' = [runs EXCEPT ![r] = AfterThrow(run, chk1, "emit")]
                       ELSE /\ faults' = faults
                            /\ alertNew' = alertNew @@ (id :> IF io THEN 1 ELSE 0)
                            /\ runs' = [runs EXCEPT ![r] =
                                          AfterAlert(run, [chk1 EXCEPT !.emits = IF io THEN 1 ELSE 0])]
    /\ UNCHANGED <<io, jobs, initialized, devices, clock, ticks>>
    /\ UNCHANGED <<tasks, restVars>>

(***************************************************************************)
(* createAlert from emailService.sendAlertEmail to its return: the mail,   *)
(* the emailSent update, the alert:new event.  sendAlertEmail catches the  *)
(* error of the transporter and returns false.                             *)
(***************************************************************************)
EmailStep(r) ==
    /\ runs[r].pc = "email"
    /\ LET run == runs[r]
           chk == run.chk
           id == CHOOSE a \in chk.created : TRUE
       IN \E smtp \in (IF initialized THEN Outcomes ELSE {"ok"}) :
          LET sent == initialized /\ smtp = "ok"
              f1 == IF smtp = "fail" THEN faults + 1 ELSE faults
              chk1 == [chk EXCEPT !.mails = @ + 1,
                                  !.faults = IF smtp = "fail" THEN @ \cup {"smtp"} ELSE @]
          IN \E emitted \in (IF io THEN OutcomesAt(f1) ELSE {"ok"}) :
                /\ mailCalls' = [mailCalls EXCEPT ![id] = @ + 1]
                /\ outbox' = IF sent THEN [outbox EXCEPT ![id] = @ + 1] ELSE outbox
                /\ alerts' = IF sent /\ id \in DOMAIN alerts
                             THEN [alerts EXCEPT ![id].emailSent = TRUE]
                             ELSE alerts
                /\ alertNew' = IF io /\ emitted = "ok"
                               THEN [alertNew EXCEPT ![id] = @ + 1]
                               ELSE alertNew
                /\ faults' = IF emitted = "fail" THEN f1 + 1 ELSE f1
                /\ runs' = [runs EXCEPT ![r] =
                              IF emitted = "fail" THEN AfterThrow(run, chk1, "emit")
                              ELSE AfterAlert(run, [chk1 EXCEPT !.emits = IF io THEN 1 ELSE 0])]
    /\ UNCHANGED <<io, jobs, initialized, devices, nextAlertId, clock, ticks>>
    /\ UNCHANGED <<tasks, restVars>>

(***************************************************************************)
(* resolveDeviceAlerts: every unresolved alert of the device is resolved,  *)
(* in the order of the query.  An error of the query (k = 0) or of the     *)
(* save of an alert (the k alerts before it are resolved) is caught and    *)
(* logged inside.                                                          *)
(***************************************************************************)
ResolveStep(r) ==
    /\ runs[r].pc = "resolve"
    /\ LET run == runs[r]
           chk == run.chk
           found == Unresolved(chk.dev)
           order == Ascending(found)
       IN \E query \in Outcomes :
          IF query = "fail"
          THEN \E k \in 0..Len(order) :
               LET part == {order[i] : i \in 1..k} IN
               /\ k < Len(order) \/ k = 0
               /\ faults' = faults + 1
               /\ alerts' = [a \in DOMAIN alerts |->
                               IF a \in part THEN resolve(alerts[a], clock)
                               ELSE alerts[a]]
               /\ runs' = [runs EXCEPT ![r] =
                             NextDevice(run, [chk EXCEPT !.faults = @ \cup {"query"},
                                                         !.resolved = part])]
          ELSE /\ faults' = faults
               /\ alerts' = [a \in DOMAIN alerts |->
                               IF a \in found THEN resolve(alerts[a], clock)
                               ELSE alerts[a]]
               /\ runs' = [runs EXCEPT ![r] =
                             NextDevice(run, [chk EXCEPT !.resolved = found])]
    /\ UNCHANGED <<io, jobs, initialized, devices, nextAlertId, mailCalls,
                   outbox, alertNew, clock, ticks>>
    /\ UNCHANGED <<tasks, restVars>>

(***************************************************************************)
(* The end of the tick: checkAllDevices has returned, broadcastStats runs. *)
(***************************************************************************)
StatsStep(r) ==
    /\ runs[r].pc = "stats"
    /\ runs' = [runs EXCEPT ![r] = IdleRun]
    /\ UNCHANGED <<io, jobs, initialized, devices, alerts, nextAlertId,
                   mailCalls, outbox, alertNew, clock, ticks, faults>>
    /\ statsUpdate' = broadcastStats(statsUpdate, undefined, clock)
    /\ UNCHANGED <<tasks, tickLog, reports, cleanups>>
    /\ UNCHANGED otherVars

(***************************************************************************)
(* Spec: every check cycle ends before the next tick of its job fires (the *)
(* fleet is small against the period), so one task is in flight.           *)
(***************************************************************************)
Next ==
    \/ AppInitialize
    \/ StartCycle(1)
    \/ CheckStep(1)
    \/ CreateStep(1)
    \/ EmailStep(1)
    \/ ResolveStep(1)
    \/ StatsStep(1)

Spec == Init /\ [][Next]_vars

(***************************************************************************)
(* LiveSpec: Spec from a database whose devices were left online, the      *)
(* email service configured, with the scheduling of the runtime: the event *)
(* loop runs every continuation whose awaited call has settled, and        *)
(* node-cron fires the tick of a running task when its time comes.  With   *)
(* one task in flight at most one action of Next is enabled in a state     *)
(* (the step of its pc, or the tick when it is idle), so fairness of Next  *)
(* is fairness of each of them.                                            *)
(***************************************************************************)
LiveInit ==
    /\ Init
    /\ initialized
    /\ \A d \in Devices : devices[d].status = "online"

LiveSpec ==
    /\ LiveInit
    /\ [][Next]_vars
    /\ WF_vars(Next)

(***************************************************************************)
(* OverlapSpec: no assumption on the duration of a cycle; a tick can fire  *)
(* while the cycle of the tick before is still in flight.  It starts from  *)
(* a database whose devices have not been checked yet.                     *)
(***************************************************************************)
OverlapInit ==
    /\ Init
    /\ \A d \in Devices : devices[d].status = "unknown"

NextOverlap ==
    \/ AppInitialize
    \/ \E r \in Runs : StartCycle(r)
    \/ \E r \in Runs : CheckStep(r)
    \/ \E r \in Runs : CreateStep(r)
    \/ \E r \in Runs : EmailStep(r)
    \/ \E r \in Runs : ResolveStep(r)
    \/ \E r \in Runs : StatsStep(r)

OverlapSpec == OverlapInit /\ [][NextOverlap]_vars

(***************************************************************************)
(* RecoverSpec: the cycles of Spec on a device that an earlier cycle left  *)
(* offline with its disaster alert open.                                   *)
(***************************************************************************)
\* a row that an earlier cycle left offline
SeenOffline(row) ==
    updateStatus(SeenOnline(row), "offline", NoTime, "Host unreachable", 0)

RecoverInit ==
    /\ io = FALSE
    /\ jobs = <<>>
    /\ initialized = TRUE
    /\ devices = [d \in {1} |-> SeenOffline(ConfiguredDevice(d))]
    /\ alerts = (1 :> NewAlert(1, 1, "disaster", AlertMessage("disaster", NoCheck), 0))
    /\ nextAlertId = 2
    /\ runs = [r \in Runs |-> IdleRun]
    /\ mailCalls = (1 :> 0)
    /\ outbox = (1 :> 0)
    /\ alertNew = (1 :> 0)
    /\ clock = 0
    /\ ticks = 0
    /\ faults = 0
    /\ tasks = <<>>
    /\ tickLog = [n \in {JobNames[i] : i \in DOMAIN JobNames} |-> <<>>]
    /\ statsUpdate = <<>>
    /\ reports = 0
    /\ cleanups = <<>>
    /\ CronIdle
    /\ CacheIdle
    /\ MoreIdle

RecoverSpec == RecoverInit /\ [][Next]_vars

(***************************************************************************)
(* RaceSpec: the overlapping cycles of OverlapSpec on one device that the  *)
(* table holds as online, so that both cycles can read it before either    *)
(* has written it.                                                         *)
(***************************************************************************)
RaceInit ==
    /\ EngineIdle
    /\ devices = [d \in {1} |-> SeenOnline(ConfiguredDevice(d))]
    /\ CronIdle
    /\ CacheIdle
    /\ MoreIdle

RaceSpec == RaceInit /\ [][NextOverlap]_vars

(***************************************************************************)
(* The scheduled jobs.  JobsSpec looks at the four jobs from outside: the  *)
(* check cycle is taken by whether checkAllDevices returns or throws (its  *)
(* steps are the actions of Spec), the three other callbacks are whole.    *)
(* Time is counted in days there: the cleanup tick is the first event of a *)
(* day.                                                                    *)
(***************************************************************************)
\* the ticks fired so far, all jobs together
RECURSIVE TicksOf(_)
TicksOf(names) ==
    IF names = {} THEN 0
    ELSE LET n == CHOOSE x \in names : TRUE
         IN Len(tickLog[n]) + TicksOf(names \ {n})

\* the requests to the cleanup route so far
Requests == Cardinality({i \in DOMAIN cleanups : cleanups[i].by = "route"})

\* the events explored so far
Events == TicksOf(DOMAIN tickLog) + Requests

CanTick(t, name) ==
    /\ t \in Live(name)
    /\ Events < MaxJobTicks

\* the catch of a cron callback with the error thrown by the action
AfterTick_Uncaught(ts, t, outcome) ==
    IF outcome = "caught" THEN [ts EXCEPT ![t].running = FALSE] ELSE ts

\* the try/catch of every cron callback: the error is logged, nothing reaches
\* node-cron and the task stays as it was
AfterTick(ts, t, outcome) == ts

\* the end of a tick of task t
Ticked(t, outcome) ==
    /\ tickLog' = [tickLog EXCEPT ![tasks[t].name] = Append(@, outcome)]
    /\ tasks' = AfterTick(tasks, t, outcome)
    /\ jobs' = jobs

\* MonitoringJob.start called by itself
Start ==
    /\ Len(tasks) < Len(JobNames) * MaxStarts
    /\ jobs' = startJobs(jobs, tasks)
    /\ tasks' = startTasks(tasks)
    /\ UNCHANGED <<io, initialized, devices, alerts, nextAlertId, runs, mailCalls,
                   outbox, alertNew, clock, ticks, faults, restVars>>

\* MonitoringJob.stop
Stop ==
    /\ jobs # <<>>
    /\ tasks' = stopTasks(jobs, tasks)
    /\ jobs' = <<>>
    /\ UNCHANGED <<io, initialized, devices, alerts, nextAlertId, runs, mailCalls,
                   outbox, alertNew, clock, ticks, faults, restVars>>

\* a tick of deviceMonitoring: checkAllDevices, then broadcastStats()
MonitoringTick(t) ==
    /\ CanTick(t, "deviceMonitoring")
    /\ \E cycle \in {"ok", "fail"} : \E emitted \in {"ok", "fail"} :
         /\ cycle = "fail" => emitted = "ok"
         /\ io \/ emitted = "ok"
         /\ statsUpdate' = IF cycle = "ok" /\ emitted = "ok"
                           THEN broadcastStats(statsUpdate, undefined, clock)
                           ELSE statsUpdate
         /\ Ticked(t, IF cycle = "ok" /\ emitted = "ok" THEN "ok" ELSE "caught")
    /\ UNCHANGED <<io, initialized, devices, alerts, nextAlertId, runs, mailCalls,
                   outbox, alertNew, clock, ticks, faults, reports, cleanups>>
    /\ UNCHANGED otherVars

\* a tick of statsUpdate: broadcastStats()
StatsTick(t) ==
    /\ CanTick(t, "statsUpdate")
    /\ \E emitted \in (IF io THEN {"ok", "fail"} ELSE {"ok"}) :
         /\ statsUpdate' = IF emitted = "ok"
                           THEN broadcastStats(statsUpdate, undefined, clock)
                           ELSE statsUpdate
         /\ Ticked(t, IF emitted = "ok" THEN "ok" ELSE "caught")
    /\ UNCHANGED <<io, initialized, devices, alerts, nextAlertId, runs, mailCalls,
                   outbox, alertNew, clock, ticks, faults, reports, cleanups>>
    /\ UNCHANGED otherVars

\* a tick of dailyReport: getStats, the two queries, sendDailyReport (which
\* returns false when the mail fails)
DailyReportTick(t) ==
    /\ CanTick(t, "dailyReport")
    /\ \E query \in {"ok", "fail"} : \E smtp \in {"ok", "fail"} :
         /\ query = "fail" => smtp = "ok"
         /\ reports' = IF query = "ok" /\ smtp = "ok" /\ initialized
                       THEN reports + 1 ELSE reports
         /\ Ticked(t, IF query = "ok" THEN "ok" ELSE "caught")
    /\ UNCHANGED <<io, initialized, devices, alerts, nextAlertId, runs, mailCalls,
                   outbox, alertNew, clock, ticks, faults, statsUpdate, cleanups>>
    /\ UNCHANGED otherVars

\* the retention of the cleanup job, in days
RetentionDays == 30
\* the retention of the cleanup route when the request names none, in days
DefaultDays == 30

\* the where of the cleanup job: resolved, and resolved before the window
JobWhere(alert, now) ==
    /\ alert.resolved
    /\ alert.resolvedAt # NoDate
    /\ alert.resolvedAt < now - RetentionDays

\* the where of the cleanup route: resolved, and created before the window
RouteWhere(alert, now, days) ==
    /\ alert.resolved
    /\ alert.timestamp < now - days

\* Alert.destroy({where}): the rows that are left
destroy(table, gone) == [a \in DOMAIN table \ gone |-> table[a]]

\* a tick of alertCleanup, at 03:00 of the next day
CleanupTick(t) ==
    /\ CanTick(t, "alertCleanup")
    /\ clock' = clock + 1
    /\ \E destroyed \in {"ok", "fail"} :
         LET gone == {a \in DOMAIN alerts : JobWhere(alerts[a], clock')} IN
         /\ alerts' = IF destroyed = "ok" THEN destroy(alerts, gone) ELSE alerts
         /\ cleanups' = IF destroyed = "ok"
                        THEN Append(cleanups, [by |-> "job", window |-> RetentionDays,
                                               now |-> clock', before |-> alerts,
                                               removed |-> gone])
                        ELSE cleanups
         /\ Ticked(t, IF destroyed = "ok" THEN "ok" ELSE "caught")
    /\ UNCHANGED <<io, initialized, devices, nextAlertId, runs, mailCalls,
                   outbox, alertNew, ticks, faults, statsUpdate, reports>>
    /\ UNCHANGED otherVars

\* AlertController.cleanup: the request names the window in days, or none
Cleanup(days) ==
    /\ Events < MaxJobTicks
    /\ LET gone == {a \in DOMAIN alerts : RouteWhere(alerts[a], clock, days)} IN
       /\ alerts' = destroy(alerts, gone)
       /\ cleanups' = Append(cleanups, [by |-> "route", window |-> days,
                                        now |-> clock, before |-> alerts,
                                        removed |-> gone])
    /\ UNCHANGED <<io, jobs, initialized, devices, nextAlertId, runs, mailCalls,
                   outbox, alertNew, clock, ticks, faults, tasks, tickLog,
                   statsUpdate, reports>>
    /\ UNCHANGED otherVars

\* an alerts table that the engine has filled over the last weeks
AgedAlerts ==
    LET a1 == NewAlert(1, 1, "disaster", <<"Device is unreachable">>, 60)
        a2 == NewAlert(2, 1, "warning", <<"High response time: ", 1500, "ms">>, 50)
        a3 == NewAlert(3, 2, "disaster", <<"Device is unreachable">>, 50)
        a4 == NewAlert(4, 2, "information", <<"Device is back online">>, 95)
    IN <<resolve(a1, 72), resolve(a2, 55), a3, resolve(a4, 96)>>

\* the email settings are in the environment or not; device 1 was left
\* online, device 2 has not been checked yet
JobsInit ==
    /\ io = FALSE
    /\ jobs = <<>>
    /\ initialized \in BOOLEAN
    /\ devices = [d \in Devices |->
                    IF d = 1 THEN SeenOnline(ConfiguredDevice(d))
                    ELSE ConfiguredDevice(d)]
    /\ alerts = AgedAlerts
    /\ nextAlertId = Len(AgedAlerts) + 1
    /\ runs = [r \in Runs |-> IdleRun]
    /\ mailCalls = <<>>
    /\ outbox = <<>>
    /\ alertNew = <<>>
    /\ clock = 100
    /\ ticks = 0
    /\ faults = 0
    /\ tasks = <<>>
    /\ tickLog = [n \in {JobNames[i] : i \in DOMAIN JobNames} |-> <<>>]
    /\ statsUpdate = <<>>
    /\ reports = 0
    /\ cleanups = <<>>
    /\ CronIdle
    /\ CacheIdle
    /\ MoreIdle

JobsNext ==
    \/ AppInitialize
    \/ Start
    \/ Stop
    \/ \E t \in DOMAIN tasks : MonitoringTick(t)
    \/ \E t \in DOMAIN tasks : StatsTick(t)
    \/ \E t \in DOMAIN tasks : DailyReportTick(t)
    \/ \E t \in DOMAIN tasks : CleanupTick(t)
    \/ \E days \in {7, DefaultDays} : Cleanup(days)

JobsSpec == JobsInit /\ [][JobsNext]_vars

(***************************************************************************)
(* The period of the check cycle.  CronSpec takes a MONITORING_INTERVAL,   *)
(* lets startDeviceMonitoring turn it into a cron expression and lets      *)
(* node-cron fire the expression; time is in seconds from a full hour of   *)
(* midnight, at which the job is scheduled.                                *)
(***************************************************************************)
\* the values of MONITORING_INTERVAL explored, in milliseconds
Intervals ==
    {1000 * k : k \in 1..60}
      \cup {1500, 90000, 120000, 300000, 3600000, 5400000, 7200000}

\* convertMillisecondsToCron: */s * * * * *, */m * * * * or 0 */h * * *
convertMillisecondsToCron(ms) ==
    LET seconds == ms \div 1000
        minutes == seconds \div 60
        hours == minutes \div 60
    IN IF seconds < 60 THEN [unit |-> "second", step |-> seconds]
       ELSE IF minutes < 60 THEN [unit |-> "minute", step |-> minutes]
       ELSE [unit |-> "hour", step |-> hours]

\* the seconds in one unit of the stepped field
UnitSeconds(unit) ==
    IF unit = "second" THEN 1 ELSE IF unit = "minute" THEN 60 ELSE 3600

\* the number of values of the stepped field: 0-59 seconds or minutes, 0-23 hours
FieldRange(unit) == IF unit = "hour" THEN 24 ELSE 60

\* cron: */n matches the values of the field that are multiples of n, the
\* fields below the stepped one being 0
Matches(expr, t) ==
    /\ t % UnitSeconds(expr.unit) = 0
    /\ ((t \div UnitSeconds(expr.unit)) % FieldRange(expr.unit)) % expr.step = 0

\* node-cron: the first matching time after now
NextFire(expr, now) ==
    LET u == UnitSeconds(expr.unit)
        from == now \div u
        cand == {k * u : k \in (from + 1)..(from + FieldRange(expr.unit))}
    IN CHOOSE t \in cand : Matches(expr, t) /\ \A o \in cand : Matches(expr, o) => t <= o

\* startDeviceMonitoring: the interval becomes the expression of the job
ScheduleCron ==
    /\ cronExpression = NoCron
    /\ cronExpression' = convertMillisecondsToCron(interval)
    /\ UNCHANGED <<interval, fireLog, engineVars, cacheVars, moreVars>>

\* node-cron fires the expression
CronFire ==
    /\ cronExpression # NoCron
    /\ Len(fireLog) < MaxFires
    /\ fireLog' = Append(fireLog,
                         NextFire(cronExpression,
                                  IF fireLog = <<>> THEN 0 ELSE fireLog[Len(fireLog)]))
    /\ UNCHANGED <<interval, cronExpression, engineVars, cacheVars, moreVars>>

CronInit ==
    /\ EngineInit
    /\ \A d \in Devices : devices[d].status = "unknown"
    /\ interval \in Intervals
    /\ cronExpression = NoCron
    /\ fireLog = <<>>
    /\ CacheIdle
    /\ MoreIdle

CronNext ==
    \/ ScheduleCron
    \/ CronFire

CronSpec == CronInit /\ [][CronNext]_vars

(***************************************************************************)
(* The cache in front of the device routes.  redisClient is the wrapper of *)
(* the backend: it answers its caller with a fallback when the backend is  *)
(* not there.  A value is stored as its JSON text and parsed on the way    *)
(* back; the controller sends what it read from the store through the same *)
(* JSON text (res.json), so a value here is the JSON value on both paths.  *)
(* A backend call that throws was not applied.                             *)
(***************************************************************************)
\* the engine, the jobs and the schedule, for the actions of the routes
cacheRest == <<io, jobs, initialized, alerts, nextAlertId, runs, mailCalls,
               outbox, alertNew, clock, ticks, faults, tasks, tickLog,
               statsUpdate, reports, cleanups, cronVars, moreVars>>

\* what a call of the redis client can do
RedisOutcomes == {"ok", "throw"}

\* the status filters of the list route that are explored
Filters == {"all", "online"}

\* `device:${id}`
DeviceKey(id) == <<"device", id>>

\* `devices:list:${status || 'all'}:${type || 'all'}:${search || 'none'}`
ListKey(status) == <<"devices", "list", status, "all", "none">>

\* MATCH 'devices:list:*'
MatchesList(key) == Len(key) > 2 /\ key[1] = "devices" /\ key[2] = "list"

\* nothing read
NoData == [success |-> FALSE]

\* _checkConnection
checkConnection(conn) == conn

\* redisClient.set with the throw passed on to the caller
set_Rethrows(c, conn, o, key, value) ==
    IF ~checkConnection(conn)
    THEN [cache |-> c, result |-> "false", deleted |-> 0, threw |-> FALSE]
    ELSE IF o = "throw"
    THEN [cache |-> c, result |-> "false", deleted |-> 0, threw |-> TRUE]
    ELSE [cache |-> (key :> value) @@ c, result |-> "true", deleted |-> 0,
          threw |-> FALSE]

\* redisClient.set
set(c, conn, o, key, value) ==
    IF ~checkConnection(conn)
    THEN [cache |-> c, result |-> "false", deleted |-> 0, threw |-> FALSE]
    ELSE IF o = "throw"
    THEN [cache |-> c, result |-> "false", deleted |-> 0, threw |-> FALSE]
    ELSE [cache |-> (key :> value) @@ c, result |-> "true", deleted |-> 0,
          threw |-> FALSE]

\* redisClient.get: the parsed value, or null
get(c, conn, o, key) ==
    IF ~checkConnection(conn)
    THEN [cache |-> c, result |-> NULL, value |-> NoData, deleted |-> 0,
          threw |-> FALSE]
    ELSE IF o = "throw"
    THEN [cache |-> c, result |-> NULL, value |-> NoData, deleted |-> 0,
          threw |-> FALSE]
    ELSE IF key \in DOMAIN c
    THEN [cache |-> c, result |-> "value", value |-> c[key], deleted |-> 0,
          threw |-> FALSE]
    ELSE [cache |-> c, result |-> NULL, value |-> NoData, deleted |-> 0,
          threw |-> FALSE]

\* client.del(keys): the keys that are left
without(c, keys) == [k \in DOMAIN c \ keys |-> c[k]]

\* redisClient.del: the number of keys deleted
del(c, conn, o, keys) ==
    IF ~checkConnection(conn)
    THEN [cache |-> c, result |-> "0", deleted |-> 0, threw |-> FALSE]
    ELSE IF o = "throw"
    THEN [cache |-> c, result |-> "0", deleted |-> 0, threw |-> FALSE]
    ELSE [cache |-> without(c, keys), result |-> "n",
          deleted |-> Cardinality(keys \cap DOMAIN c), threw |-> FALSE]

\* client.scan(cursor, {MATCH}): the keys found, in one page
scan(c) == {k \in DOMAIN c : MatchesList(k)}

\* redisClient.invalidatePattern, from the scan on: conn is the connection
\* when it was called, o what the scan did, found the keys of the scan,
\* od what the del of these keys does
invalidatePattern(c, conn, o, found, od) ==
    IF ~checkConnection(conn)
    THEN [cache |-> c, result |-> "0", deleted |-> 0, threw |-> FALSE]
    ELSE IF o = "throw"
    THEN [cache |-> c, result |-> "0", deleted |-> 0, threw |-> FALSE]
    ELSE IF found = {}
    THEN [cache |-> c, result |-> "n", deleted |-> 0, threw |-> FALSE]
    ELSE IF od = "throw"
    THEN [cache |-> c, result |-> "0", deleted |-> 0, threw |-> FALSE]
    ELSE [cache |-> without(c, found), result |-> "n",
          deleted |-> Cardinality(found), threw |-> FALSE]

\* a call of redisClient as its caller saw it
Logged(op, reachable, before, res) ==
    [op |-> op, reachable |-> reachable, result |-> res.result,
     deleted |-> res.deleted, threw |-> res.threw,
     changed |-> res.cache # before]

\* what the store answers for a key now: findByPk, or findAll with the
\* filter and the counts of the list route
View(key) ==
    IF key[1] = "device"
    THEN IF key[2] \in DOMAIN devices THEN devices[key[2]] ELSE NoData
    ELSE LET found == {d \in DOMAIN devices :
                         key[3] = "all" \/ devices[d].status = key[3]}
             n(status) == Cardinality({d \in found : devices[d].status = status})
         IN [success |-> TRUE,
             data |-> [d \in found |-> devices[d]],
             stats |-> [total |-> Cardinality(found), online |-> n("online"),
                        offline |-> n("offline"), warning |-> n("warning")]]

\* the routes that change a device
MutOps == {"create", "update", "delete", "checkDevice"}

\* no route is changing a device
Settled == \A r \in Reqs : reqs[r].op \notin MutOps

\* a read took data from the cache (hit) or put data into it (fill)
Observed(at, key, data) ==
    [at |-> at, settled |-> Settled, fresh |-> data = View(key)]

\* monitoringService.checkDevice on an instance: the row after the save
Checked(row, inst, o, now) ==
    LET result == IF Truthy(inst.checkUrl) THEN checkHttp(o) ELSE checkPing(o)
    IN Save(row, updateStatus(inst, StatusOf(result), result.responseTime,
                              result.error, now))

\* the probes of an instance that are explored here: one that finds the
\* device and one that does not
ProbesOf(inst) ==
    IF Truthy(inst.checkUrl)
    THEN {o \in HttpOutcomes : o.status \in {200, 503} /\ o.elapsed = 40}
    ELSE {o \in PingOutcomes : o.kind = "reply" /\ o.time \in {403, NoTime}}

\* a mutation is over: the cache calls it made
Done(r) ==
    /\ lastMutation' = [kind |-> reqs[r].op, del |-> reqs[r].del, inval |-> TRUE]
    /\ reqs' = [reqs EXCEPT ![r] = IdleReq]

\* a request arrives and takes the first free slot
Arrives(r) ==
    /\ reqs[r].pc = "idle"
    /\ \A q \in Reqs : q < r => reqs[q].pc # "idle"
    /\ started < MaxRequests
    /\ started' = started + 1

\* the lookup of getAll and getById
Lookup(r, op, key) ==
    /\ Arrives(r)
    /\ \E o \in RedisOutcomes :
         LET res == get(cache, isConnected, o, key) IN
         /\ lastCall' = Logged("get", isConnected /\ o = "ok", cache, res)
         /\ IF res.result # NULL
            THEN /\ lastRead' = Observed("hit", key, res.value)
                 /\ reqs' = reqs
            ELSE /\ lastRead' = lastRead
                 /\ reqs' = [reqs EXCEPT ![r] =
                               [IdleReq EXCEPT !.op = op, !.pc = "find", !.key = key]]
    /\ UNCHANGED <<isConnected, cache, lastMutation, devices, cacheRest>>

\* DeviceController.getAll, up to the answer of the cache
getAll(r, status) == Lookup(r, "getAll", ListKey(status))

\* DeviceController.getById, up to the answer of the cache
getById(r, id) == Lookup(r, "getById", DeviceKey(id))

\* Device.findAll of getAll, Device.findByPk of getById (404 if no row)
FindRows(r) ==
    /\ reqs[r].pc = "find"
    /\ reqs[r].op \in {"getAll", "getById"}
    /\ reqs' = [reqs EXCEPT ![r] =
                  IF View(reqs[r].key) = NoData THEN IdleReq
                  ELSE [@ EXCEPT !.pc = "set", !.data = View(reqs[r].key)]]
    /\ UNCHANGED <<isConnected, cache, started, lastMutation, lastRead, lastCall,
                   devices, cacheRest>>

\* redisClient.set(cacheKey, ...) of a read, and the response
FillCache(r) ==
    /\ reqs[r].pc = "set"
    /\ \E o \in RedisOutcomes :
         LET res == set(cache, isConnected, o, reqs[r].key, reqs[r].data) IN
         /\ cache' = res.cache
         /\ lastCall' = Logged("set", isConnected /\ o = "ok", cache, res)
         /\ lastRead' = IF res.result = "true"
                       THEN Observed("fill", reqs[r].key, reqs[r].data)
                       ELSE lastRead
    /\ reqs' = [reqs EXCEPT ![r] = IdleReq]
    /\ UNCHANGED <<isConnected, started, lastMutation, devices, cacheRest>>

\* Device.findByPk of update, delete and checkDevice (404 if no row)
findByPk(r, op, id) ==
    /\ Arrives(r)
    /\ reqs' = IF id \in DOMAIN devices
               THEN [reqs EXCEPT ![r] =
                       [IdleReq EXCEPT !.op = op, !.pc = "write", !.id = id,
                                       !.key = DeviceKey(id), !.data = devices[id]]]
               ELSE reqs
    /\ UNCHANGED <<isConnected, cache, lastMutation, lastRead, lastCall, devices,
                   cacheRest>>

\* DeviceController.update, up to the row
update(r, id) == findByPk(r, "update", id)

\* DeviceController.delete, up to the row
delete(r, id) == findByPk(r, "delete", id)

\* DeviceController.checkDevice, up to the row
checkDevice(r, id) == findByPk(r, "checkDevice", id)

\* DeviceController.create, up to the end of Device.create
create(r, id) ==
    /\ Arrives(r)
    /\ id \notin DOMAIN devices
    /\ devices' = (id :> ConfiguredDevice(id)) @@ devices
    /\ reqs' = [reqs EXCEPT ![r] =
                  [IdleReq EXCEPT !.op = "create", !.pc = "write", !.id = id,
                                  !.key = DeviceKey(id),
                                  !.data = ConfiguredDevice(id)]]
    /\ UNCHANGED <<isConnected, cache, lastMutation, lastRead, lastCall, cacheRest>>

\* the write of a mutation: device.update (isActive is flipped),
\* device.destroy, or monitoringService.checkDevice (of create and checkDevice)
WriteRow(r) ==
    /\ reqs[r].pc = "write"
    /\ LET id == reqs[r].id
           inst == reqs[r].data
           op == reqs[r].op
       IN /\ \/ /\ op = "update"
                /\ devices' = IF id \in DOMAIN devices
                              THEN [devices EXCEPT ![id].isActive = ~inst.isActive]
                              ELSE devices
             \/ /\ op = "delete"
                /\ devices' = [d \in DOMAIN devices \ {id} |-> devices[d]]
             \/ /\ op \in {"create", "checkDevice"}
                /\ \E o \in ProbesOf(inst) :
                     devices' = IF id \in DOMAIN devices
                                THEN [devices EXCEPT ![id] = Checked(@, inst, o, clock)]
                                ELSE devices
          /\ reqs' = [reqs EXCEPT ![r].pc = IF op = "create" THEN "scan" ELSE "del"]
    /\ UNCHANGED <<isConnected, cache, started, lastMutation, lastRead, lastCall,
                   cacheRest>>

\* redisClient.del(`device:${id}`) of update, delete and checkDevice
DelKey(r) ==
    /\ reqs[r].pc = "del"
    /\ \E o \in RedisOutcomes :
         LET res == del(cache, isConnected, o, {reqs[r].key}) IN
         /\ cache' = res.cache
         /\ lastCall' = Logged("del", isConnected /\ o = "ok", cache, res)
    /\ reqs' = [reqs EXCEPT ![r].pc = "scan", ![r].del = TRUE]
    /\ UNCHANGED <<isConnected, started, lastMutation, lastRead, devices, cacheRest>>

\* redisClient.invalidatePattern('devices:list:*') up to the answer of the
\* scan; with nothing to delete it is over, and so is the request
ScanKeys(r) ==
    /\ reqs[r].pc = "scan"
    /\ \E o \in RedisOutcomes :
         LET found == scan(cache)
             res == invalidatePattern(cache, isConnected, o, found, "ok")
         IN IF isConnected /\ o = "ok" /\ found # {}
            THEN /\ reqs' = [reqs EXCEPT ![r].pc = "delKeys", ![r].keys = found]
                 /\ UNCHANGED <<lastMutation, lastCall>>
            ELSE /\ lastCall' = Logged("invalidatePattern",
                                        isConnected /\ o = "ok", cache, res)
                 /\ Done(r)
    /\ UNCHANGED <<isConnected, cache, started, lastRead, devices, cacheRest>>

\* client.del(keys) of invalidatePattern, and the response of the request
DelKeys(r) ==
    /\ reqs[r].pc = "delKeys"
    /\ \E od \in RedisOutcomes :
         LET res == invalidatePattern(cache, TRUE, "ok", reqs[r].keys, od) IN
         /\ cache' = res.cache
         /\ lastCall' = Logged("invalidatePattern", od = "ok", cache, res)
    /\ Done(r)
    /\ UNCHANGED <<isConnected, started, lastRead, devices, cacheRest>>

\* checkAllDevices reaches a device: checkDevice writes the row and makes
\* no call of redisClient; a change of status is a mutation
ScheduledCheck(d) ==
    /\ started < MaxRequests
    /\ d \in DOMAIN devices
    /\ devices[d].isActive
    /\ started' = started + 1
    /\ \E o \in ProbesOf(devices[d]) :
         devices' = [devices EXCEPT ![d] = Checked(@, @, o, clock)]
    /\ lastMutation' = IF devices'[d].status # devices[d].status
                 THEN [kind |-> "cycle", del |-> FALSE, inval |-> FALSE]
                 ELSE lastMutation
    /\ UNCHANGED <<isConnected, cache, reqs, lastRead, lastCall, cacheRest>>

\* the 'ready' event of the client
Ready ==
    /\ ~isConnected
    /\ isConnected' = TRUE
    /\ UNCHANGED <<cache, reqs, started, lastMutation, lastRead, lastCall, devices,
                   cacheRest>>

\* the 'error', 'reconnecting' and 'end' events of the client
ConnectionLost ==
    /\ isConnected
    /\ isConnected' = FALSE
    /\ UNCHANGED <<cache, reqs, started, lastMutation, lastRead, lastCall, devices,
                   cacheRest>>

\* the TTL of a key runs out (30 s for a list, 60 s for a device)
Expire(key) ==
    /\ key \in DOMAIN cache
    /\ cache' = without(cache, {key})
    /\ UNCHANGED <<isConnected, reqs, started, lastMutation, lastRead, lastCall,
                   devices, cacheRest>>

\* device 1 is in the table and online; device 2 is not created yet
CacheInit ==
    /\ EngineIdle
    /\ devices = [d \in {1} |-> SeenOnline(ConfiguredDevice(d))]
    /\ CronIdle
    /\ CacheIdle
    /\ MoreIdle

CacheNext ==
    \/ \E r \in Reqs : \E status \in Filters : getAll(r, status)
    \/ \E r \in Reqs : \E id \in Devices : getById(r, id)
    \/ \E r \in Reqs : FindRows(r)
    \/ \E r \in Reqs : FillCache(r)
    \/ \E r \in Reqs : create(r, 2)
    \/ \E r \in Reqs : update(r, 1)
    \/ \E r \in Reqs : delete(r, 1)
    \/ \E r \in Reqs : \E id \in Devices : checkDevice(r, id)
    \/ \E r \in Reqs : WriteRow(r)
    \/ \E r \in Reqs : DelKey(r)
    \/ \E r \in Reqs : ScanKeys(r)
    \/ \E r \in Reqs : DelKeys(r)
    \/ \E d \in Devices : ScheduledCheck(d)
    \/ Ready
    \/ ConnectionLost
    \/ \E key \in DOMAIN cache : Expire(key)

CacheSpec == CacheInit /\ [][CacheNext]_vars

(***************************************************************************)
(* The alert routes.  PUT /api/alerts/:id/acknowledge and                  *)
(* PUT /api/alerts/:id/resolve read the alert, answer 404 or 400, and save *)
(* the instance; a check cycle can run between the read and the save.      *)
(***************************************************************************)
\* req.user.username of the requests
Username == "operator"

\* Alert.prototype.acknowledge, on the instance in memory
acknowledge(alert, username, now) ==
    [alert EXCEPT !.acknowledged = TRUE, !.acknowledgedBy = username,
                  !.acknowledgedAt = now]

\* instance.save() of an alert: the row takes the fields that were changed
\* on the instance since it was read
SaveAlert(row, read, inst) ==
    [f \in DOMAIN row |-> IF inst[f] # read[f] THEN inst[f] ELSE row[f]]

\* the ids of the requests: the alerts of the table and one that is not there
AlertIds == DOMAIN alerts \cup {nextAlertId}

\* a route up to the end of Alert.findByPk and of its two early answers
findAlert(r, op, id, refused) ==
    /\ Arrives(r)
    /\ reqs' = IF id \in DOMAIN alerts /\ ~refused
               THEN [reqs EXCEPT ![r] =
                       [IdleReq EXCEPT !.op = op, !.pc = "save", !.id = id,
                                       !.data = alerts[id]]]
               ELSE reqs
    /\ UNCHANGED <<engineVars, cronVars, isConnected, cache, lastMutation,
                   lastRead, lastCall, moreVars>>

\* AlertController.acknowledge, up to the row: 404 without a row, 400 for an
\* alert that is acknowledged
AlertAcknowledge(r, id) ==
    findAlert(r, "acknowledge", id, id \in DOMAIN alerts /\ alerts[id].acknowledged)

\* AlertController.resolve, up to the row: 404 without a row, 400 for an
\* alert that is resolved
AlertResolve(r, id) ==
    findAlert(r, "resolve", id, id \in DOMAIN alerts /\ alerts[id].resolved)

\* alert.acknowledge(username) or alert.resolve() of a route, and the answer
\* (500 when the save throws)
SaveAlertStep(r) ==
    /\ reqs[r].pc = "save"
    /\ LET id == reqs[r].id
           read == reqs[r].data
           inst == IF reqs[r].op = "acknowledge"
                   THEN acknowledge(read, Username, clock)
                   ELSE resolve(read, clock)
       IN \E saved \in Outcomes :
            /\ alerts' = IF saved = "ok" /\ id \in DOMAIN alerts
                         THEN [alerts EXCEPT ![id] = SaveAlert(@, read, inst)]
                         ELSE alerts
            /\ faults' = IF saved = "ok" THEN faults ELSE faults + 1
    /\ reqs' = [reqs EXCEPT ![r] = IdleReq]
    /\ UNCHANGED <<io, jobs, initialized, devices, nextAlertId, runs, mailCalls,
                   outbox, alertNew, clock, ticks, tasks, tickLog, statsUpdate,
                   reports, cleanups>>
    /\ UNCHANGED <<cronVars, isConnected, cache, started, lastMutation,
                   lastRead, lastCall, moreVars>>

\* device 1 is in the table and online, with no alert
AlertsInit ==
    /\ EngineIdle
    /\ devices = [d \in {1} |-> SeenOnline(ConfiguredDevice(d))]
    /\ CronIdle
    /\ CacheIdle
    /\ MoreIdle

AlertsNext ==
    \/ AppInitialize
    \/ StartCycle(1)
    \/ CheckStep(1)
    \/ CreateStep(1)
    \/ EmailStep(1)
    \/ ResolveStep(1)
    \/ StatsStep(1)
    \/ \E r \in Reqs : \E id \in AlertIds : AlertAcknowledge(r, id)
    \/ \E r \in Reqs : \E id \in AlertIds : AlertResolve(r, id)
    \/ \E r \in Reqs : SaveAlertStep(r)

AlertsSpec == AlertsInit /\ [][AlertsNext]_vars

(***************************************************************************)
(* Deactivation.  PUT /api/devices/:id can turn isActive off and on while  *)
(* the check cycles run; the cycle works on the rows it read at its start. *)
(***************************************************************************)
\* device 2 is in the table and was checked before; it may be inactive
ActiveInit ==
    /\ EngineIdle
    /\ \E off \in SUBSET {2} :
         devices = [d \in {2} |->
                      [SeenOnline(ConfiguredDevice(d)) EXCEPT !.isActive = d \notin off]]
    /\ CronIdle
    /\ CacheIdle
    /\ MoreIdle

ActiveNext ==
    \/ AppInitialize
    \/ StartCycle(1)
    \/ CheckStep(1)
    \/ CreateStep(1)
    \/ EmailStep(1)
    \/ ResolveStep(1)
    \/ StatsStep(1)
    \/ started < MaxToggles /\ update(1, 2)
    \/ WriteRow(1)
    \/ DelKey(1)
    \/ ScanKeys(1)

ActiveSpec == ActiveInit /\ [][ActiveNext]_vars

(***************************************************************************)
(* Authentication.  login and register sign a token that carries a         *)
(* sessionId and store the session in the backend of redisClient;          *)
(* authMiddleware verifies the token and then looks the session up.        *)
(***************************************************************************)
\* the users that log in
Users == {1, 2}

\* `session:${sessionId}`
SessionKey(sessionId) == <<"session", sessionId>>

\* generateToken: the payload that is signed; the sessionId is new each time
generateToken(user, issued) ==
    [id |-> user, sessionId |-> <<user, Cardinality(issued) + 1>>]

\* the Authorization headers of a request: none, "Bearer " with nothing
\* behind it, a token with a wrong signature, an expired token, and the
\* tokens that were issued and are not expired
Headers(issued) ==
    {[kind |-> "none"], [kind |-> "empty"]}
      \cup {[kind |-> k, token |-> t] : k \in {"forged", "expired", "issued"},
                                         t \in issued}

\* jwt.verify(token, JWT_SECRET)
verify(h) ==
    IF h.kind = "issued" THEN [ok |-> TRUE, name |-> "none"]
    ELSE IF h.kind = "expired" THEN [ok |-> FALSE, name |-> "TokenExpiredError"]
    ELSE [ok |-> FALSE, name |-> "JsonWebTokenError"]

\* authMiddleware: session is the answer of redisClient.getSession
authMiddleware(h, session) ==
    IF h.kind = "none" THEN [next |-> FALSE, status |-> 401]
    ELSE IF h.kind = "empty" THEN [next |-> FALSE, status |-> 401]
    ELSE IF ~verify(h).ok THEN [next |-> FALSE, status |-> 401]
    ELSE IF session.result = NULL THEN [next |-> FALSE, status |-> 401]
    ELSE IF session.value.userId # h.token.id THEN [next |-> FALSE, status |-> 401]
    ELSE [next |-> TRUE, status |-> 0]

\* AuthController.login and register, from generateToken on: the session is
\* stored if the backend takes it, and the token is sent in either case
login(user) ==
    /\ Cardinality(auth.issued) < MaxLogins
    /\ LET token == generateToken(user, auth.issued) IN
       /\ \E o \in RedisOutcomes :
            LET res == set(cache, isConnected, o, SessionKey(token.sessionId),
                           [userId |-> user])
            IN /\ cache' = res.cache
               /\ lastCall' = Logged("set", isConnected /\ o = "ok", cache, res)
       /\ auth' = [auth EXCEPT !.issued = @ \cup {token}]
    /\ UNCHANGED <<engineVars, cronVars, isConnected, reqs, started,
                   lastMutation, lastRead, hub, wire>>

\* a request to a route behind authMiddleware
Authenticate(h) ==
    /\ IF h.kind \in {"none", "empty"} \/ ~verify(h).ok
       THEN /\ auth' = [auth EXCEPT !.last =
                          [header |-> h.kind, valid |-> FALSE, redis |-> TRUE]
                            @@ authMiddleware(h, get(cache, FALSE, "ok", <<>>))]
            /\ UNCHANGED lastCall
       ELSE \E o \in RedisOutcomes :
              LET res == get(cache, isConnected, o, SessionKey(h.token.sessionId))
              IN /\ auth' = [auth EXCEPT !.last =
                               [header |-> h.kind, valid |-> TRUE,
                                redis |-> isConnected /\ o = "ok"]
                                 @@ authMiddleware(h, res)]
                 /\ lastCall' = Logged("get", isConnected /\ o = "ok", cache, res)
    /\ UNCHANGED <<engineVars, cronVars, isConnected, cache, reqs, started,
                   lastMutation, lastRead, hub, wire>>

AuthInit ==
    /\ EngineInit
    /\ \A d \in Devices : devices[d].status = "unknown"
    /\ CronIdle
    /\ CacheIdle
    /\ MoreIdle

AuthNext ==
    \/ \E user \in Users : login(user)
    \/ \E h \in Headers(auth.issued) : Authenticate(h)
    \/ Ready
    \/ ConnectionLost
    \/ \E key \in DOMAIN cache : Expire(key)

AuthSpec == AuthInit /\ [][AuthNext]_vars

(***************************************************************************)
(* The realtime hub.  hub.sockets are the sockets of io.sockets.sockets    *)
(* (connected), hub.listeners those that setupEventListeners has wired.    *)
(* wire keeps what the last handler was given, the hub before it ran and   *)
(* the events it put on the wire, in order.                                *)
(***************************************************************************)
\* the ids of the sockets that connect
Sockets == {1, 2}

\* the deviceId of an event: a device, or nothing (falsy)
DeviceArgs == Devices \cup {0}

\* the tokens of a handshake: none, wrong signature, expired, good
Handshakes == {"none", "forged", "expired", "issued"}

\* the sizes of the alerts table when a list is pulled
TableSizes == {0, 3, 20, 23}

\* limit: 20 of the alert lists
AlertsLimit == 20

\* the elements of an array
Elements(seq) == {seq[i] : i \in DOMAIN seq}

\* array.includes(x) that never finds x
includes_Never(seq, x) == FALSE

\* array.includes(x)
includes(seq, x) == x \in Elements(seq)

\* Splice that takes nothing out
Splice_Nothing(seq, x) == seq

\* array.indexOf(x) and splice(index, 1), if x is in the array
Splice(seq, x) ==
    IF x \notin Elements(seq) THEN seq
    ELSE LET i == CHOOSE i \in DOMAIN seq :
                    seq[i] = x /\ \A j \in 1..(i - 1) : seq[j] # x
         IN SubSeq(seq, 1, i - 1) \o SubSeq(seq, i + 1, Len(seq))

\* map.delete(key) that leaves the key
Delete_Keep(map, key) == map

\* map.delete(key)
Delete(map, key) == [k \in DOMAIN map \ {key} |-> map[k]]

\* socket.emit(event, ...): ids are the alerts of an alerts:list
Event(to, event, ids) == [to |-> to, event |-> event, ids |-> ids]

\* io.emit(event, ...): one event to every socket of io
ioEmit(event) ==
    LET order == Ascending(hub.sockets)
    IN [i \in DOMAIN order |-> Event(order[i], event, <<>>)]

\* the middleware of io.use with any token let through
ioUse_AnyToken(token) == token # "none"

\* the middleware of io.use: next() or next(new Error(...))
ioUse(token) == token # "none" /\ verify([kind |-> token]).ok

\* what the last handler leaves in wire
Handled(handler, socket, token, device, sent) ==
    [handler |-> handler, socket |-> socket, token |-> token, device |-> device,
     before |-> hub, sent |-> sent]

\* a handshake reaches io: the middleware, then handleConnection
Connect(s, token, user) ==
    /\ io
    /\ ~hub.closed
    /\ s \notin hub.sockets
    /\ IF ioUse(token)
       THEN /\ hub' = [hub EXCEPT
                         !.connectedClients =
                             (s :> [socketId |-> s, userId |-> user,
                                    subscriptions |-> <<>>]) @@ @,
                         !.sockets = @ \cup {s},
                         !.listeners = @ \cup {s}]
            /\ wire' = Handled("connect", s, token, 0,
                               <<Event(s, "auth:success", <<>>)>>)
       ELSE /\ hub' = hub
            /\ wire' = Handled("connect", s, token, 0, <<>>)
    /\ UNCHANGED <<engineVars, cronVars, cacheVars, auth>>


\* dropEmpty that keeps the entries whose list is empty
dropEmpty_Never(map, keys) == map

\* if (subscribers.length === 0) this.deviceSubscriptions.delete(deviceId),
\* for the entries that were spliced
dropEmpty(map, keys) ==
    [d \in DOMAIN map \ {k \in keys : map[k] = <<>>} |-> map[d]]

\* handleDeviceSubscribe
handleDeviceSubscribe(s, deviceId) ==
    /\ s \in hub.listeners
    /\ IF deviceId = 0
       THEN /\ hub' = hub
            /\ wire' = Handled("device:subscribe", s, "none", deviceId,
                               <<Event(s, "error", <<>>)>>)
       ELSE LET index == hub.deviceSubscriptions
                subscribers == IF deviceId \in DOMAIN index THEN index[deviceId]
                               ELSE <<>>
                clients == hub.connectedClients
            IN IF ~includes(subscribers, s)
               THEN /\ hub' = [hub EXCEPT
                                 !.deviceSubscriptions =
                                     (deviceId :> Append(subscribers, s)) @@ @,
                                 !.connectedClients =
                                     IF s \in DOMAIN clients
                                        /\ ~includes(clients[s].subscriptions, deviceId)
                                     THEN [@ EXCEPT ![s].subscriptions =
                                                        Append(@, deviceId)]
                                     ELSE @]
                    /\ wire' = Handled("device:subscribe", s, "none", deviceId,
                                       <<Event(s, "device:subscribed", <<>>)>>)
               ELSE /\ hub' = hub
                    /\ wire' = Handled("device:subscribe", s, "none", deviceId, <<>>)
    /\ UNCHANGED <<engineVars, cronVars, cacheVars, auth>>

\* handleDeviceUnsubscribe
handleDeviceUnsubscribe(s, deviceId) ==
    /\ s \in hub.listeners
    /\ IF deviceId = 0
       THEN /\ hub' = hub
            /\ wire' = Handled("device:unsubscribe", s, "none", deviceId,
                               <<Event(s, "error", <<>>)>>)
       ELSE LET index == hub.deviceSubscriptions
                clients == hub.connectedClients
            IN IF deviceId \in DOMAIN index /\ s \in Elements(index[deviceId])
               THEN LET left == Splice(index[deviceId], s) IN
                    /\ hub' = [hub EXCEPT
                                 !.deviceSubscriptions =
                                     dropEmpty([@ EXCEPT ![deviceId] = left],
                                               {deviceId}),
                                 !.connectedClients =
                                     IF s \in DOMAIN clients
                                     THEN [@ EXCEPT ![s].subscriptions =
                                                        Splice(@, deviceId)]
                                     ELSE @]
                    /\ wire' = Handled("device:unsubscribe", s, "none", deviceId,
                                       <<Event(s, "device:unsubscribed", <<>>)>>)
               ELSE /\ hub' = hub
                    /\ wire' = Handled("device:unsubscribe", s, "none", deviceId, <<>>)
    /\ UNCHANGED <<engineVars, cronVars, cacheVars, auth>>

\* the socket closes and handleDisconnection runs
handleDisconnection(s) ==
    /\ s \in hub.sockets
    /\ LET index == hub.deviceSubscriptions
           clients == hub.connectedClients
           mine == IF s \in DOMAIN clients THEN Elements(clients[s].subscriptions)
                   ELSE {}
           hit == {d \in mine \cap DOMAIN index : s \in Elements(index[d])}
       IN hub' = [hub EXCEPT
                    !.deviceSubscriptions =
                        dropEmpty([d \in DOMAIN index |->
                                     IF d \in hit THEN Splice(index[d], s)
                                     ELSE index[d]], hit),
                    !.connectedClients = Delete(@, s),
                    !.sockets = @ \ {s},
                    !.listeners = @ \ {s}]
    /\ wire' = Handled("disconnect", s, "none", 0, <<>>)
    /\ UNCHANGED <<engineVars, cronVars, cacheVars, auth>>

\* WebSocketService.close, at shutdown: io.close() ends every socket and
\* takes no new one, and both maps are cleared; the disconnect event of a
\* socket that was open runs handleDisconnection afterwards
close ==
    /\ io
    /\ ~hub.closed
    /\ hub' = [NoClients EXCEPT !.closed = TRUE, !.sockets = hub.sockets]
    /\ wire' = Handled("close", 0, "none", 0, <<>>)
    /\ UNCHANGED <<engineVars, cronVars, cacheVars, auth>>

RECURSIVE findRecent_Oldest(_, _, _)
\* findRecent in ascending order
findRecent_Oldest(table, ids, limit) ==
    IF ids = {} \/ limit = 0 THEN <<>>
    ELSE LET oldest == CHOOSE a \in ids :
                         \A b \in ids : table[a].timestamp <= table[b].timestamp
         IN <<oldest>> \o findRecent_Oldest(table, ids \ {oldest}, limit - 1)

RECURSIVE findRecent(_, _, _)
\* Alert.findAll({order: [['createdAt', 'DESC']], limit}): the ids of the
\* rows, the newest first; an alert is created at its timestamp
findRecent(table, ids, limit) ==
    IF ids = {} \/ limit = 0 THEN <<>>
    ELSE LET newest == CHOOSE a \in ids :
                         \A b \in ids : table[b].timestamp <= table[a].timestamp
         IN <<newest>> \o findRecent(table, ids \ {newest}, limit - 1)

\* the events of a pull: request:update, devices:request, alerts:request and
\* stats:request; found is what the queries of the handler did
PullEvents(s, pull, found) ==
    LET recent == findRecent(alerts, DOMAIN alerts, AlertsLimit) IN
    IF pull = "stats:request"
    THEN <<Event(s, "stats:update", <<>>)>>   \* the stats, or null from calculateStats
    ELSE IF found = "fail" THEN <<Event(s, "error", <<>>)>>
    ELSE IF pull = "request:update"
    THEN <<Event(s, "devices:list", <<>>), Event(s, "alerts:list", recent)>>
    ELSE IF pull = "devices:request" THEN <<Event(s, "devices:list", <<>>)>>
    ELSE <<Event(s, "alerts:list", recent)>>

\* the pulls of a connection
Pulls == {"request:update", "devices:request", "alerts:request", "stats:request"}

\* handleUpdateRequest, handleDevicesRequest, handleAlertsRequest and
\* handleStatsRequest
handleRequest(s, pull) ==
    /\ s \in hub.listeners
    /\ \E found \in {"ok", "fail"} :
         wire' = Handled(pull, s, "none", 0, PullEvents(s, pull, found))
    /\ hub' = hub
    /\ UNCHANGED <<engineVars, cronVars, cacheVars, auth>>

\* sendDeviceUpdate with the update sent to everybody
sendDeviceUpdate_Broadcast(deviceId) ==
    /\ io
    /\ wire' = Handled("sendDeviceUpdate", 0, "none", deviceId, ioEmit("device:status"))
    /\ hub' = hub
    /\ UNCHANGED <<engineVars, cronVars, cacheVars, auth>>

\* sendDeviceUpdate
sendDeviceUpdate(deviceId) ==
    /\ io
    /\ LET index == hub.deviceSubscriptions
           to == IF deviceId \in DOMAIN index
                 THEN SelectSeq(index[deviceId], LAMBDA x : x \in hub.sockets)
                 ELSE <<>>
       IN wire' = Handled("sendDeviceUpdate", 0, "none", deviceId,
                          IF deviceId \in DOMAIN index
                          THEN [i \in DOMAIN to |-> Event(to[i], "device:update", <<>>)]
                          ELSE ioEmit("device:status"))
    /\ hub' = hub
    /\ UNCHANGED <<engineVars, cronVars, cacheVars, auth>>

\* the alerts of a table of n rows, created at different times and not in
\* the order of their ids
OldAlerts(n) ==
    [a \in 1..n |-> NewAlert(a, 1, "disaster", <<"Device is unreachable">>,
                             (a * 7) % 29)]

\* the engine is idle, the devices are online and the alerts table holds
\* the alerts of earlier days
HubInit ==
    /\ io = FALSE
    /\ jobs = <<>>
    /\ initialized = TRUE
    /\ devices = [d \in Devices |-> SeenOnline(ConfiguredDevice(d))]
    /\ \E n \in TableSizes : alerts = OldAlerts(n) /\ nextAlertId = n + 1
    /\ runs = [r \in Runs |-> IdleRun]
    /\ mailCalls = <<>>
    /\ outbox = <<>>
    /\ alertNew = <<>>
    /\ clock = 30
    /\ ticks = 0
    /\ faults = 0
    /\ tasks = <<>>
    /\ tickLog = [n \in {JobNames[i] : i \in DOMAIN JobNames} |-> <<>>]
    /\ statsUpdate = <<>>
    /\ reports = 0
    /\ cleanups = <<>>
    /\ CronIdle
    /\ CacheIdle
    /\ MoreIdle

HubNext ==
    \/ AppInitialize
    \/ \E s \in Sockets : \E token \in Handshakes : \E user \in Users :
         Connect(s, token, user)
    \/ \E s \in Sockets : \E d \in DeviceArgs : handleDeviceSubscribe(s, d)
    \/ \E s \in Sockets : \E d \in DeviceArgs : handleDeviceUnsubscribe(s, d)
    \/ \E s \in Sockets : handleDisconnection(s)
    \/ \E s \in Sockets : \E pull \in Pulls : handleRequest(s, pull)
    \/ \E d \in Devices : sendDeviceUpdate(d)
    \/ close

HubSpec == HubInit /\ [][HubNext]_vars

(***************************************************************************)
(* The claims.                                                             *)
(***************************************************************************)
\* the tasks whose last check has started, and those whose last check is over
Started == {r \in Runs : runs[r].chk.dev # 0}
Completed == {r \in Started : runs[r].chk.done}

\* a transport answer that is a failure of the probe
FailedOutcome(o) ==
    \/ o.kind = "reply" /\ ~o.alive
    \/ o.kind = "response" /\ o.status >= 400
    \/ o.kind = "throw"

\* C1: a successful probe (an HTTP 200 answer is one) is persisted as online
\* when its response time is at most 1000 ms and as warning when it is above
\* 1000 ms; it is never persisted as online above 1000 ms.
C1_SuccessOnlineOrWarning ==
    \A r \in Started :
      LET c == runs[r].chk IN
      /\ (c.outcome.kind = "response" /\ c.outcome.status = 200) => c.success
      /\ (c.success /\ c.persisted # "none") =>
            /\ c.responseTime <= 1000 => c.persisted = "online"
            /\ c.responseTime > 1000 => c.persisted = "warning"

C1_Witness ==
    \E r \in Started :
      LET c == runs[r].chk IN
      /\ c.outcome.kind = "response" /\ c.outcome.status = 200
      /\ c.responseTime = 1500
      /\ c.persisted = "warning"
      /\ devices[c.dev].status = "warning"

C3_OneDisasterAlert ==
    \A r \in Completed :
      LET c == runs[r].chk IN
      /\ ( /\ c.previousStatus = "online" /\ c.status = "offline"
           /\ c.persisted = "offline" /\ "create" \notin c.faults )
         => \E a \in DOMAIN alerts :
              /\ c.created = {a}
              /\ alerts[a].deviceId = c.dev
              /\ alerts[a].level = "disaster"
              /\ alerts[a].message = <<"Device is unreachable">>
      /\ (c.previousStatus = "offline" /\ c.status = "offline") => c.created = {}

C3_Witness ==
    \E r \in Completed :
      LET c == runs[r].chk
          mine == {a \in DOMAIN alerts : alerts[a].deviceId = c.dev}
      IN /\ c.previousStatus = "offline" /\ c.status = "offline"
         /\ devices[c.dev].consecutiveFailures = 2
         /\ \E a \in mine : mine = {a} /\ alerts[a].level = "disaster"

\* C4: a check whose new status is warning creates exactly one alert, a warning
\* alert, when the previous status was not warning (Alert.create not failing),
\* and no alert when the previous status was warning.
C4_OneWarningAlert ==
    \A r \in Completed :
      LET c == runs[r].chk IN
      /\ ( /\ c.status = "warning" /\ c.previousStatus # "warning"
           /\ c.persisted = "warning" /\ "create" \notin c.faults )
         => \E a \in DOMAIN alerts :
              /\ c.created = {a}
              /\ alerts[a].deviceId = c.dev
              /\ alerts[a].level = "warning"
              /\ alerts[a].message = <<"High response time: ", c.responseTime, "ms">>
      /\ (c.status = "warning" /\ c.previousStatus = "warning") => c.created = {}

C4_Witness ==
    \E r \in Completed :
      LET c == runs[r].chk
          mine == {a \in DOMAIN alerts : alerts[a].deviceId = c.dev}
      IN /\ c.previousStatus = "warning" /\ c.status = "warning"
         /\ devices[c.dev].consecutiveFailures = 2
         /\ \E a \in mine : mine = {a} /\ alerts[a].level = "warning"

\* C5: a check that takes a device from offline or warning to online, with no
\* collaborator failing, creates exactly one alert, an information alert
\* "Device is back online", and leaves every alert of the device that was
\* unresolved before the check resolved with a resolvedAt, whatever its level;
\* the alerts of the other devices are not changed by it.
C5_RecoveryState ==
    \A r \in Completed :
      LET c == runs[r].chk IN
      ( /\ c.previousStatus \in {"offline", "warning"} /\ c.status = "online"
        /\ c.persisted = "online" /\ c.faults = {} )
      => /\ \E a \in DOMAIN alerts :
              /\ c.created = {a}
              /\ alerts[a].deviceId = c.dev
              /\ alerts[a].level = "information"
              /\ alerts[a].message = <<"Device is back online">>
         /\ \A b \in c.before :
              /\ b \in DOMAIN alerts
              /\ alerts[b].resolved
              /\ alerts[b].resolvedAt # NoDate

C5_OthersUntouched ==
    \A r \in Started :
      (runs[r].pc \in {"create", "resolve"} /\ runs[r].chk.level = "information")
      => \A a \in DOMAIN alerts :
           alerts[a].deviceId # runs[r].chk.dev
           => a \in DOMAIN alerts' /\ alerts'[a] = alerts[a]

Alerting(old, new) ==
    \/ old = "online" /\ new = "offline"
    \/ new = "warning" /\ old # "warning"
    \/ new = "online" /\ old \in {"offline", "warning"}

C8_EmailOnEveryTransition ==
    \A r \in Completed :
      LET c == runs[r].chk IN
      ( /\ initialized /\ c.faults = {}
        /\ \/ c.previousStatus = "online" /\ c.status = "offline"
           \/ c.previousStatus \in {"offline", "warning"} /\ c.status = "online"
           \/ c.previousStatus # "warning" /\ c.status = "warning" )
      => \E a \in c.created : outbox[a] >= 1

\* the devices of a cycle that come after the one checked last
Remaining(run) == {d \in DOMAIN run.snap : d > run.chk.dev}

\* C9: when sendAlertEmail or the alert:new broadcast of a created alert fails,
\* the status written by the check and the alert record stay as they were
\* written, and the cycle goes on with every remaining device.
C9_SideEffectFailureKeepsRecords ==
    \A r \in Completed :
      LET c == runs[r].chk IN
      (c.faults \cap {"smtp", "emit"} # {})
      => /\ devices[c.dev].status = c.status
         /\ devices[c.dev].lastCheck = clock
         /\ c.created # {}
         /\ \A a \in c.created :
              /\ a \in DOMAIN alerts
              /\ alerts[a].deviceId = c.dev
              /\ alerts[a].level = c.level
         /\ { runs[r].queue[k] : k \in DOMAIN runs[r].queue } = Remaining(runs[r])
         /\ runs[r].pc = IF Remaining(runs[r]) = {} THEN "stats" ELSE "check"

C9_Witness ==
    /\ runs[1].chk.dev = 2 /\ runs[1].chk.done
    /\ devices[2].lastCheck = clock
    /\ \E a \in DOMAIN alerts :
         /\ alerts[a].deviceId = 1
         /\ alerts[a].timestamp = clock
         /\ alertNew[a] = 0
         /\ devices[1].status = "offline"

\* C10: at most one check cycle is in progress at any time.
C10_NoOverlap ==
    Cardinality({r \in Runs : runs[r].pc # "idle"}) <= 1

\* a tick of task t, whatever its job
Tick(t) ==
    \/ MonitoringTick(t)
    \/ StatsTick(t)
    \/ DailyReportTick(t)
    \/ CleanupTick(t)

\* C11: whatever the outcomes of the ticks so far (a tick whose action threw is
\* logged as caught), every job entry still has its task running and every
\* running task can fire its next tick (within the ticks explored).
C11_FailedTickStopsNothing ==
    /\ \A i \in DOMAIN jobs : tasks[jobs[i].job].running
    /\ \A t \in DOMAIN tasks :
         (tasks[t].running /\ Events < MaxJobTicks) => ENABLED Tick(t)

C11_Witness ==
    /\ tickLog["deviceMonitoring"] = <<"caught", "ok">>
    /\ tickLog["alertCleanup"] = <<"caught">>
    /\ \A i \in DOMAIN jobs : tasks[jobs[i].job].running
    /\ Len(jobs) = Len(JobNames)

\* the entries of results that are about device d
EntriesOf(run, d) == {k \in DOMAIN run.results : run.results[k].device = d}

\* checkAllDevices is about to return: one entry per device of the snapshot,
\* in the order of the query
OneEntryEach(run) ==
    /\ Len(run.results) = Cardinality(DOMAIN run.snap)
    /\ \A d \in DOMAIN run.snap : Cardinality(EntriesOf(run, d)) = 1
    /\ \A k \in DOMAIN run.results : run.results[k].device = Ascending(DOMAIN run.snap)[k]

\* a check that threw has an error entry, and the loop went on
ErrorEntryAndOn(r) ==
    LET c == runs[r].chk IN
    c.threw =>
      /\ runs[r].results[Len(runs[r].results)] = [device |-> c.dev, error |-> TRUE, status |-> NULL]
      /\ { runs[r].queue[k] : k \in DOMAIN runs[r].queue } = Remaining(runs[r])
      /\ runs[r].pc = IF Remaining(runs[r]) = {} THEN "stats" ELSE "check"

\* C12 as stated: one entry per device active at the start of the cycle; a
\* check that threw, whatever threw in it, has an error entry, created no alert
\* and the later devices are still checked.
C12_ThrowMeansNoAlert ==
    /\ \A r \in Runs : runs[r].pc = "stats" => OneEntryEach(runs[r])
    /\ \A r \in Completed :
         /\ ErrorEntryAndOn(r)
         /\ runs[r].chk.threw => runs[r].chk.created = {}

\* C12, amended: one entry per device active at the start of the cycle; a
\* check that threw has an error entry and the later devices are still checked;
\* it created no alert when what threw was a write of the database (the save of
\* the status or Alert.create); when what threw was the alert:new emit the
\* alert is there, and it is the only one of the check.
C12_OneEntryPerDevice ==
    /\ \A r \in Runs : runs[r].pc = "stats" => OneEntryEach(runs[r])
    /\ \A r \in Completed :
         LET c == runs[r].chk IN
         /\ ErrorEntryAndOn(r)
         /\ ~c.threw => runs[r].results[Len(runs[r].results)] =
                          [device |-> c.dev, error |-> FALSE, status |-> c.status]
         /\ (c.threw /\ c.faults \cap {"save", "create"} # {}) => c.created = {}
         /\ (c.threw /\ "emit" \in c.faults) => Cardinality(c.created) = 1

C12_Witness ==
    /\ runs[1].pc = "stats"
    /\ runs[1].results = << [device |-> 1, error |-> TRUE, status |-> NULL],
                            [device |-> 2, error |-> FALSE, status |-> "online"] >>
    /\ runs[1].chk.dev = 2
    /\ devices[1].lastCheck # clock
    /\ devices[2].lastCheck = clock
    /\ alerts = <<>>

\* C13: whatever the probes answer and whichever collaborator calls fail, the
\* check cycle in flight always comes to its end, and once the scheduler has
\* its jobs the ticks of the check cycle go on firing, up to the last tick
\* explored.
C13_LoopNeverHalts ==
    /\ []<>(runs[1].pc = "idle")
    /\ (jobs # <<>>) ~> (ticks = MaxTicks)

C13_Witness ==
    /\ ticks = MaxTicks
    /\ faults = MaxFaults
    /\ runs[1].pc = "idle"
    /\ \E a \in DOMAIN alerts : alerts[a].timestamp = clock
    /\ \A d \in Devices : devices[d].lastCheck = clock

\* the names of the four jobs
Names == {JobNames[i] : i \in DOMAIN JobNames}

\* C14: the scheduler is either stopped, with no task that can fire, or
\* running, with each of the four jobs scheduled exactly once.
C14_StoppedOrRunningOnce ==
    \/ /\ jobs = <<>>
       /\ \A n \in Names : Live(n) = {}
    \/ /\ Len(jobs) = Len(JobNames)
       /\ \A n \in Names : Cardinality(Live(n)) = 1

\* the payload carries the counts of the devices table, at the top or under
\* devices (the shape calculateStats returns)
CarriesCounts(p) ==
    \/ /\ {"total", "online", "offline", "warning"} \subseteq DOMAIN p
       /\ [f \in {"total", "online", "offline", "warning"} |-> p[f]] = calculateStats
    \/ /\ "devices" \in DOMAIN p
       /\ p.devices = calculateStats

\* C15: every stats:update event emitted by a stats broadcast (the tick of
\* statsUpdate, and the broadcast at the end of a check cycle) carries the
\* counts total, online, offline and warning of the devices as persisted.
C15_StatsCarryCounts ==
    \A k \in DOMAIN statsUpdate : CarriesCounts(statsUpdate[k])

\* C16: for every configured MONITORING_INTERVAL, successive firings of the
\* check cycle are exactly that many milliseconds apart.
C16_TicksOneIntervalApart ==
    \A k \in DOMAIN fireLog :
      k > 1 => (fireLog[k] - fireLog[k - 1]) * 1000 = interval


\* the day an alert's age is counted from: its creation or its resolution
AgedFrom(alert, reading) ==
    IF reading = "timestamp" THEN alert.timestamp ELSE alert.resolvedAt

\* C17: every cleanup, scheduled or requested, removes exactly the alerts that
\* are resolved and older than its retention window, never an unresolved one
\* nor a resolved one younger than the window, for one reading of an alert's age.
C17_RemovesExactlyOldResolved ==
    \E reading \in {"timestamp", "resolvedAt"} :
      \A i \in DOMAIN cleanups :
        LET c == cleanups[i] IN
        c.removed = {a \in DOMAIN c.before :
                       /\ c.before[a].resolved
                       /\ AgedFrom(c.before[a], reading) < c.now - c.window}


\* C18: every mutation of a device (create, update, delete, manual check, a
\* status change made by the scheduled check cycle) deletes the device's
\* id-scoped key and invalidates the list-scoped keys.
C18_MutationInvalidates ==
    lastMutation.kind # "none" => lastMutation.del /\ lastMutation.inval

\* C19: once the mutations are over, a read neither takes data from the cache
\* that differs from the store nor puts such data into it: the data of a read
\* that found or filled a key with no mutation in progress is the store's.
C19_ReadsSeeTheMutation ==
    lastRead.at # "none" /\ lastRead.settled => lastRead.fresh

C21_TokenAcceptedWithoutRedis ==
    auth.last.valid /\ ~auth.last.redis => auth.last.next


\* C22: a connection whose token is missing or fails verification is never
\* added to connectedClients, gets no auth:success and no listeners; one
\* with a valid token is registered with an empty subscription set and gets
\* exactly one auth:success.
C22_OnlyVerifiedConnectionsRegister ==
    /\ DOMAIN hub.connectedClients = hub.listeners
    /\ wire.handler = "connect" =>
         IF wire.token = "issued"
         THEN /\ wire.socket \notin DOMAIN wire.before.connectedClients
              /\ hub.connectedClients[wire.socket].subscriptions = <<>>
              /\ wire.socket \in hub.listeners
              /\ wire.sent = <<Event(wire.socket, "auth:success", <<>>)>>
         ELSE /\ hub = wire.before
              /\ wire.socket \notin DOMAIN hub.connectedClients
              /\ wire.socket \notin hub.listeners
              /\ wire.sent = <<>>

\* a handshake with a forged or expired token came in while another
\* connection was registered
C22_Witness ==
    /\ wire.handler = "connect"
    /\ wire.token \in {"forged", "expired"}
    /\ hub.connectedClients # NoClients.connectedClients

\* the subscription of a connection to a device is in both structures
Subscribed(h, s, d) ==
    /\ d \in DOMAIN h.deviceSubscriptions
    /\ s \in Elements(h.deviceSubscriptions[d])

\* C23: device:subscribe(d) by a connection that is subscribed to d, and
\* device:unsubscribe(d) by one that is not, leave the subscription sets and
\* the index as they were; a socket id is at most once in an index entry.
C23_SubscribeIdempotent ==
    /\ \A d \in DOMAIN hub.deviceSubscriptions :
         LET subscribers == hub.deviceSubscriptions[d] IN
         \A i, j \in DOMAIN subscribers : subscribers[i] = subscribers[j] => i = j
    /\ wire.handler = "device:subscribe"
         /\ Subscribed(wire.before, wire.socket, wire.device) => hub = wire.before
    /\ wire.handler = "device:unsubscribe"
         /\ ~Subscribed(wire.before, wire.socket, wire.device) => hub = wire.before

\* a repeated subscribe, with another subscriber of the same device
C23_Witness ==
    /\ wire.handler = "device:subscribe"
    /\ wire.device # 0
    /\ Subscribed(wire.before, wire.socket, wire.device)
    /\ Len(hub.deviceSubscriptions[wire.device]) = 2

\* C24: after handleDisconnection the socket id is in no index entry and not
\* in connectedClients, and the subscriptions of the others are as before.
C24_DisconnectCleansUp ==
    wire.handler = "disconnect" =>
      /\ wire.socket \notin DOMAIN hub.connectedClients
      /\ \A d \in DOMAIN hub.deviceSubscriptions :
           wire.socket \notin Elements(hub.deviceSubscriptions[d])
      /\ \A o \in Sockets \ {wire.socket} :
           /\ o \in DOMAIN hub.connectedClients <=>
                o \in DOMAIN wire.before.connectedClients
           /\ o \in DOMAIN hub.connectedClients =>
                hub.connectedClients[o] = wire.before.connectedClients[o]
           /\ \A d \in Devices : Subscribed(hub, o, d) <=> Subscribed(wire.before, o, d)

\* a connection with two subscriptions went away, one of them shared
C24_Witness ==
    /\ wire.handler = "disconnect"
    /\ wire.socket \in DOMAIN wire.before.connectedClients
    /\ Len(wire.before.connectedClients[wire.socket].subscriptions) = 2
    /\ \E d \in DOMAIN hub.deviceSubscriptions : hub.deviceSubscriptions[d] # <<>>

\* the connections an event of the last handler went to
Receivers(event) ==
    {wire.sent[i].to : i \in {j \in DOMAIN wire.sent : wire.sent[j].event = event}}

\* C25: sendDeviceUpdate reaches, for a device with a subscriber, every
\* connected subscriber and nobody else; for a device without one, every
\* connection gets the global device:status.
C25_UpdateToSubscribersOnly ==
    wire.handler = "sendDeviceUpdate" =>
      LET subscribers == {s \in hub.sockets : Subscribed(hub, s, wire.device)} IN
      IF subscribers # {}
      THEN /\ Receivers("device:update") = subscribers
           /\ Receivers("device:status") = {}
           /\ Len(wire.sent) = Cardinality(subscribers)
      ELSE /\ Receivers("device:status") = hub.sockets
           /\ Receivers("device:update") = {}
           /\ Len(wire.sent) = Cardinality(hub.sockets)

\* an update for a device that one of two connections is subscribed to
C25_Witness ==
    /\ wire.handler = "sendDeviceUpdate"
    /\ Cardinality(hub.sockets) = 2
    /\ Cardinality({s \in hub.sockets : Subscribed(hub, s, wire.device)}) = 1

\* C26: a pull sends its events to the requesting connection only and
\* changes neither map; an alert list holds at most the 20 newest alerts,
\* the newest first.
C26_PullAnswersRequesterOnly ==
    wire.handler \in Pulls =>
      /\ hub = wire.before
      /\ wire.sent # <<>>
      /\ \A i \in DOMAIN wire.sent :
           /\ wire.sent[i].to = wire.socket
           /\ wire.sent[i].event = "alerts:list" =>
                LET ids == wire.sent[i].ids IN
                /\ Len(ids) = (IF Len(alerts) < AlertsLimit THEN Len(alerts)
                               ELSE AlertsLimit)
                /\ \A j, k \in DOMAIN ids : j # k => ids[j] # ids[k]
                /\ \A j \in DOMAIN ids : \A a \in DOMAIN alerts :
                     a \notin Elements(ids) =>
                       alerts[a].timestamp <= alerts[ids[j]].timestamp
                /\ \A j, k \in DOMAIN ids :
                     j < k => alerts[ids[j]].timestamp >= alerts[ids[k]].timestamp

\* an alert list pulled from a table of more than 20 rows while another
\* connection is registered
C26_Witness ==
    /\ wire.handler \in {"request:update", "alerts:request"}
    /\ Len(alerts) > AlertsLimit
    /\ \E i \in DOMAIN wire.sent : wire.sent[i].event = "alerts:list"
    /\ Cardinality(hub.sockets) = 2


(***************************************************************************)
(* C27: over checks of one device that run one after another,              *)
(* consecutiveFailures goes up by exactly 1 on each check whose new status *)
(* is offline or warning and is set to 0 on each check whose new status is *)
(* online; no other step changes it, and a row whose status is online has  *)
(* consecutiveFailures 0.                                                  *)
(***************************************************************************)
C27_OnlineMeansNoFailures ==
    \A d \in DOMAIN devices :
        devices[d].status = "online" => devices[d].consecutiveFailures = 0

C27_CountStep ==
    \A d \in DOMAIN devices :
        LET old == devices[d].consecutiveFailures
            new == devices'[d].consecutiveFailures
            checked == /\ runs[1].pc = "check"
                       /\ Head(runs[1].queue) = d
                       /\ runs'[1] # runs[1]
                       /\ runs'[1].chk.persisted # "none"
        IN IF checked
           THEN LET status == runs'[1].chk.status IN
                /\ status \in {"offline", "warning"} => new = old + 1
                /\ status = "online" => new = 0
                /\ devices'[d].status = status
           ELSE new = old

C27_FailuresCountChecks ==
    []C27_OnlineMeansNoFailures /\ [][C27_CountStep]_vars

\* the second failing check of device 1 in a row, and device 2 found again
C27_Witness ==
    /\ devices[1].consecutiveFailures = 2
    /\ devices[1].status \in {"offline", "warning"}
    /\ runs[1].chk.dev = 2
    /\ runs[1].chk.previousStatus \in {"offline", "warning"}
    /\ runs[1].chk.persisted = "online"
    /\ devices[2].consecutiveFailures = 0


(***************************************************************************)
(* C28: after a check whose new status is offline or warning the row's     *)
(* lastError is not null (the error of the probe, or 'high response time'  *)
(* for a slow probe that succeeded); after a check whose new status is     *)
(* online it is null.                                                      *)
(***************************************************************************)
C28_LastErrorFollowsStatus ==
    LET chk == runs[1].chk IN
    chk.dev # 0 /\ chk.persisted # "none" =>
        /\ chk.status \in {"offline", "warning"} => devices[chk.dev].lastError # NULL
        /\ chk.status = "online" => devices[chk.dev].lastError = NULL


(***************************************************************************)
(* C29: an alert that is resolved is never changed again: neither a route  *)
(* (acknowledge, resolve), nor the bulk resolve of a recovery, nor the     *)
(* emailSent update after the mail changes any field of it.                *)
(***************************************************************************)
C29_ResolvedRowKept ==
    \A a \in DOMAIN alerts \cap DOMAIN alerts' :
        alerts[a].resolved => alerts'[a] = alerts[a]

C29_ResolvedIsImmutable == [][C29_ResolvedRowKept]_vars


(***************************************************************************)
(* C30 as stated: after every check cycle, every device that was active in *)
(* the cycle has a persisted status among online, offline, warning and     *)
(* unknown, and a persisted lastCheck written during that cycle.           *)
(***************************************************************************)
StatusValues == {"online", "offline", "warning", "unknown"}

C30_AllCheckedInCycle ==
    runs[1].pc = "stats" =>
        \A d \in DOMAIN runs[1].snap :
            /\ devices[d].status \in StatusValues
            /\ devices[d].lastCheck = clock

(***************************************************************************)
(* C30, amended: after every check cycle every device that was active in   *)
(* it has a persisted status among the four values; a device whose check   *)
(* returned has the status of that check and a lastCheck written during    *)
(* the cycle; a check whose save of the status throws leaves the row as it *)
(* was and the device gets an error entry.                                 *)
(***************************************************************************)
C30_CycleEnd ==
    runs[1].pc = "stats" =>
        /\ Len(runs[1].results) = Cardinality(DOMAIN runs[1].snap)
        /\ \A i \in DOMAIN runs[1].results :
             LET e == runs[1].results[i] IN
             /\ e.device \in DOMAIN runs[1].snap
             /\ devices[e.device].status \in StatusValues
             /\ ~e.error => /\ devices[e.device].lastCheck = clock
                            /\ devices[e.device].status = e.status

C30_CheckWrites ==
    runs[1].pc = "check" /\ runs'[1] # runs[1] =>
        LET d == Head(runs[1].queue)
            chk == runs'[1].chk
        IN IF chk.persisted = "none"
           THEN /\ devices' = devices
                /\ runs'[1].results[Len(runs'[1].results)] =
                       [device |-> d, error |-> TRUE, status |-> NULL]
           ELSE /\ devices'[d].lastCheck = clock
                /\ devices'[d].status = chk.status
                /\ chk.status \in StatusValues

C30_CheckedUnlessSaveFails == []C30_CycleEnd /\ [][C30_CheckWrites]_vars

\* a cycle is over in which device 1 was written and the save of device 2 threw
C30_Witness ==
    /\ runs[1].pc = "stats"
    /\ DOMAIN runs[1].snap = {1, 2}
    /\ devices[1].lastCheck = clock
    /\ runs[1].chk.dev = 2
    /\ "save" \in runs[1].chk.faults
    /\ devices[2].lastCheck # clock


(***************************************************************************)
(* C31: within one check the effects come in a fixed order: the status is  *)
(* saved first, then the alert is created, then (disaster, warning) the    *)
(* mail is tried, then alert:new is emitted, then (recovery) the           *)
(* unresolved alerts are resolved; alert:new is never emitted for an alert *)
(* that is not in the table, and the events of a cycle are emitted in the  *)
(* order in which the checks created the alerts.                           *)
(***************************************************************************)
Emitted(sent, a) == a \in DOMAIN sent /\ sent[a] > 0

C31_OrderInCheck ==
    LET run == runs[1]
        c == run.chk
    IN /\ run.pc \in {"create", "email", "resolve"} =>
            /\ c.persisted = c.status
            /\ devices[c.dev].status = c.status
            /\ devices[c.dev].lastCheck = clock
       /\ run.pc = "create" => c.created = {} /\ c.mails = 0 /\ c.emits = 0
       /\ run.pc = "email" =>
            \E a \in DOMAIN alerts :
               /\ c.created = {a}
               /\ mailCalls[a] = 0 /\ alertNew[a] = 0
               /\ c.resolved = {}
       /\ run.pc = "resolve" =>
            \E a \in DOMAIN alerts :
               /\ c.created = {a}
               /\ alerts[a].level = "information"
               /\ io => alertNew[a] = 1
               /\ c.resolved = {}
               /\ ~alerts[a].resolved
       /\ \A a \in DOMAIN alertNew :
            alertNew[a] > 0 =>
               /\ a \in DOMAIN alerts
               /\ alerts[a].level \in {"disaster", "warning"} => mailCalls[a] = 1

C31_EmitStep ==
    \A a \in DOMAIN alertNew' :
        (Emitted(alertNew', a) /\ ~Emitted(alertNew, a)) =>
            /\ a \in DOMAIN alerts'
            /\ a = nextAlertId' - 1
            /\ \A b \in DOMAIN alertNew' : b # a => alertNew'[b] = alertNew[b]

C31_EffectsInOrder == []C31_OrderInCheck /\ [][C31_EmitStep]_vars

\* a recovery is about to resolve: the information alert is in the table and
\* emitted, after a disaster alert that was mailed and emitted before it
C31_Witness ==
    /\ runs[1].pc = "resolve"
    /\ io
    /\ \E a \in runs[1].chk.created : alertNew[a] = 1
    /\ \E b \in runs[1].chk.before :
          /\ alerts[b].level = "disaster"
          /\ mailCalls[b] = 1 /\ alertNew[b] = 1


(***************************************************************************)
(* C32: a check makes one probe, a ping or an HTTP request as checkUrl is  *)
(* unset or set, and the probe always returns a result {success,           *)
(* responseTime, error}: an unreachable host, a refused connection, a      *)
(* timeout, an HTTP 4xx or 5xx and any thrown error come back as           *)
(* success = false with an error text, never as an exception of the check. *)
(***************************************************************************)
C32_ProbeAlwaysReturns ==
    \A r \in Started :
      LET c == runs[r].chk
          http == Truthy(devices[c.dev].checkUrl)
          result == IF http THEN checkHttp(c.outcome) ELSE checkPing(c.outcome)
      IN /\ IF http THEN c.outcome \in HttpOutcomes ELSE c.outcome \in PingOutcomes
         /\ {"success", "responseTime", "error"} \subseteq DOMAIN result
         /\ result.success \in BOOLEAN
         /\ result.success = c.success /\ result.responseTime = c.responseTime
         /\ result.success => (result.error = NULL /\ result.responseTime >= 0)
         /\ ~result.success => Truthy(result.error)
         /\ (~result.success /\ c.outcome.kind # "response")
               => result.responseTime = NoTime
         /\ FailedOutcome(c.outcome) => ~result.success
         /\ c.faults \subseteq {"save", "create", "smtp", "emit", "query"}
         /\ (c.persisted = "offline" /\ runs[r].pc # "idle")
               => devices[c.dev].lastError = result.error

\* the request of device 2 was refused and the ping of device 1 could not be
\* spawned: both checks returned and the rows are offline with the error
C32_Witness ==
    /\ runs[1].chk.dev = 2
    /\ runs[1].chk.outcome.kind = "throw"
    /\ runs[1].chk.outcome.code = "ECONNREFUSED"
    /\ ~runs[1].chk.threw
    /\ devices[2].lastError = "Connection refused"
    /\ devices[1].lastError = "spawn ping ENOENT"
    /\ devices[1].lastCheck = clock


(***************************************************************************)
(* C33: within one cycle the devices are checked strictly one after        *)
(* another: the next check starts only when the probe, the save, the alert *)
(* creation, the mail and the resolution of the one before are over or     *)
(* have failed, so a cycle has at most one check in progress.              *)
(***************************************************************************)
Finished(c) ==
    /\ c.done
    /\ c.threw \/ c.persisted = c.status
    /\ c.threw \/ c.level = "none" \/ c.created # {}
    /\ (~c.threw /\ c.level \in {"disaster", "warning"}) => c.mails = 1
    /\ (~c.threw /\ c.level = "information")
         => \/ "query" \in c.faults
            \/ \A b \in c.before : alerts[b].resolved

C33_OneAtATime ==
    \A r \in Runs :
      LET run == runs[r]
          order == Ascending(DOMAIN run.snap)
      IN run.pc # "idle" =>
           /\ Len(run.results) + Len(run.queue) = Len(order)
           /\ \A i \in DOMAIN run.results : run.results[i].device = order[i]
           /\ \A j \in DOMAIN run.queue : run.queue[j] = order[Len(run.results) + j]
           /\ run.pc \in {"create", "email", "resolve"} =>
                 /\ run.chk.dev = Head(run.queue)
                 /\ ~run.chk.done
           /\ run.pc \in {"check", "stats"} =>
                 IF run.chk = NoCheck THEN run.results = <<>>
                 ELSE /\ run.chk.dev = run.results[Len(run.results)].device
                      /\ Finished(run.chk)
           /\ run.pc = "stats" => run.queue = <<>>

\* device 2 is being checked after the check of device 1 created and mailed
\* its alert in this cycle
C33_Witness ==
    /\ runs[1].pc = "email"
    /\ Head(runs[1].queue) = 2
    /\ Len(runs[1].results) = 1
    /\ \E a \in DOMAIN alerts :
          /\ alerts[a].deviceId = 1
          /\ alerts[a].timestamp = clock
          /\ mailCalls[a] = 1


(***************************************************************************)
(* C34 as stated: a scheduled cycle never probes a device whose isActive   *)
(* is false, never changes its status, responseTime, lastCheck,            *)
(* consecutiveFailures or lastError, and never creates or resolves an      *)
(* alert for it.                                                           *)
(***************************************************************************)
CheckFields(row) ==
    <<row.status, row.responseTime, row.lastCheck, row.consecutiveFailures,
      row.lastError>>

\* this step leaves the check fields and the alerts of device d as they are
Untouched(d) ==
    /\ CheckFields(devices'[d]) = CheckFields(devices[d])
    /\ \A a \in DOMAIN alerts' :
         alerts'[a].deviceId = d => a \in DOMAIN alerts /\ alerts'[a] = alerts[a]

C34_InactiveStep ==
    \A d \in DOMAIN devices : ~devices[d].isActive => Untouched(d)

C34_RowsStep ==
    /\ (runs[1].pc = "idle" /\ runs'[1].pc # "idle")
         => DOMAIN runs'[1].snap = {d \in DOMAIN devices : devices[d].isActive}
    /\ \A d \in DOMAIN devices :
         (runs[1].pc = "idle" \/ d \notin DOMAIN runs[1].snap) => Untouched(d)
    /\ (runs[1].pc = "check" /\ runs'[1] # runs[1])
         => Head(runs[1].queue) \in DOMAIN runs[1].snap

MadeNow(d) ==
    {a \in DOMAIN alerts : alerts[a].deviceId = d /\ alerts[a].timestamp = clock}

C35_MissedState ==
    \A r \in Started :
      LET c == runs[r].chk IN
      /\ (c.level = "disaster" /\ "create" \in c.faults) =>
            /\ c.previousStatus = "online"
            /\ devices[c.dev].status = "offline"
            /\ devices[c.dev].lastCheck = clock
            /\ c.created = {} /\ MadeNow(c.dev) = {}
            /\ c.threw /\ c.done
      /\ (c.previousStatus = "offline" /\ c.persisted = "offline") =>
            /\ c.level = "none"
            /\ c.created = {} /\ MadeNow(c.dev) = {}

C35_DisasterStep ==
    \A a \in DOMAIN alerts' \ DOMAIN alerts :
        alerts'[a].level = "disaster" =>
            /\ runs[1].chk.dev = alerts'[a].deviceId
            /\ runs[1].chk.previousStatus = "online"
            /\ runs[1].chk.status = "offline"

C35_MissedAlertStaysMissed == []C35_MissedState /\ [][C35_DisasterStep]_vars

\* device 1 went offline in the first cycle and Alert.create failed; the
\* second cycle found it offline again and created nothing
C35_Witness ==
    /\ clock = 2 /\ faults = 1
    /\ runs[1].chk.dev = 1 /\ runs[1].chk.done
    /\ runs[1].chk.previousStatus = "offline"
    /\ runs[1].chk.persisted = "offline"
    /\ devices[1].consecutiveFailures = 2
    /\ devices[2].lastCheck = 1 /\ devices[2].status = "online"
    /\ alerts = <<>>


(***************************************************************************)
(* C36: in every state of the hub no device id of deviceSubscriptions maps *)
(* to an empty list: after any sequence of connect, subscribe, unsubscribe *)
(* and disconnect a device id is a key only while a socket id is           *)
(* subscribed to it.                                                       *)
(***************************************************************************)
C36_NoEmptyEntry ==
    \A d \in DOMAIN hub.deviceSubscriptions :
        /\ hub.deviceSubscriptions[d] # <<>>
        /\ \E s \in Sockets : Subscribed(hub, s, d)

\* the last subscriber of a device unsubscribed and the entry is gone, while
\* another device keeps its entry
C36_Witness ==
    /\ wire.handler = "device:unsubscribe"
    /\ wire.device \in DOMAIN wire.before.deviceSubscriptions
    /\ wire.device \notin DOMAIN hub.deviceSubscriptions
    /\ hub.deviceSubscriptions # wire.before.deviceSubscriptions
    /\ DOMAIN hub.deviceSubscriptions # {}


(***************************************************************************)
(* C38: the two maps of the hub agree in every state: socket id s is in    *)
(* deviceSubscriptions[d] exactly when s is a key of connectedClients and  *)
(* d is in connectedClients[s].subscriptions, after any sequence of        *)
(* connect, subscribe, unsubscribe, disconnect and close.                  *)
(***************************************************************************)
C38_MapsAgree ==
    /\ \A d \in DOMAIN hub.deviceSubscriptions :
         /\ d \in Devices
         /\ Elements(hub.deviceSubscriptions[d]) \subseteq Sockets
    /\ \A s \in DOMAIN hub.connectedClients :
         Elements(hub.connectedClients[s].subscriptions) \subseteq Devices
    /\ \A s \in Sockets : \A d \in Devices :
         Subscribed(hub, s, d) <=>
            /\ s \in DOMAIN hub.connectedClients
            /\ d \in Elements(hub.connectedClients[s].subscriptions)

\* close cleared the maps of two clients that shared a device, and the
\* sockets are still to see their disconnect event
C38_Witness ==
    /\ wire.handler = "close"
    /\ hub.closed
    /\ Cardinality(hub.sockets) = 2
    /\ \E d \in Devices : \A s \in Sockets : Subscribed(wire.before, s, d)
    /\ \E d \in Devices : \E s \in Sockets : ~Subscribed(wire.before, s, d)
    /\ DOMAIN hub.connectedClients = {}


(***************************************************************************)
(* C37: when checks of one device interleave (two cycles overlap, each     *)
(* with its own snapshot of the row), one change from online to offline    *)
(* still gives exactly one disaster alert and one recovery exactly one     *)
(* information alert, and consecutiveFailures goes up by 1 with every      *)
(* failing check that ran.                                                 *)
(***************************************************************************)
\* the alerts of a level that device d has and that are not resolved
Open(d, level) ==
    {a \in DOMAIN alerts :
        alerts[a].deviceId = d /\ alerts[a].level = level /\ ~alerts[a].resolved}

C37_OneAlertPerChange ==
    \A d \in DOMAIN devices :
        /\ Cardinality(Open(d, "disaster")) <= 1
        /\ Cardinality(Open(d, "information")) <= 1

C37_CountStep ==
    \A r \in Runs :
        (runs[r].pc = "check" /\ runs'[r] # runs[r]
           /\ runs'[r].chk.persisted \in {"offline", "warning"})
        => LET d == runs'[r].chk.dev IN
           devices'[d].consecutiveFailures = devices[d].consecutiveFailures + 1

C37_InterleavedChecksCount ==
    []C37_OneAlertPerChange /\ [][C37_CountStep]_vars


(***************************************************************************)
(* C39 as stated: a recovery check resolves every open alert of the        *)
(* device, the information alert it has just created included; hence       *)
(* whenever the last completed check of a device ended online without      *)
(* error the device has no unresolved alert.                               *)
(***************************************************************************)
C39_OnlineMeansNoneOpen ==
    \A r \in Completed :
      LET c == runs[r].chk IN
      (c.persisted = "online" /\ ~c.threw /\ c.faults = {})
      => Unresolved(c.dev) = {}

(***************************************************************************)
(* C39, the part that holds: a recovery check (offline or warning to       *)
(* online) in which nothing failed leaves the device with no unresolved    *)
(* alert, the information alert it created included; an online to online   *)
(* check                                                                   *)
(* resolves nothing, so alerts that a failed recovery left open stay open. *)
(***************************************************************************)
C39_RecoveryState ==
    \A r \in Completed :
      LET c == runs[r].chk IN
      ( /\ c.previousStatus \in {"offline", "warning"}
        /\ c.persisted = "online" /\ ~c.threw /\ c.faults = {} )
      => /\ Unresolved(c.dev) = {}
         /\ \E a \in c.created :
               /\ alerts[a].level = "information"
               /\ alerts[a].resolved
               /\ a \in c.resolved

C39_OnlineStep ==
    \A r \in Runs :
      (runs[r].pc = "check" /\ runs'[r] # runs[r]
         /\ runs'[r].chk.previousStatus = "online"
         /\ runs'[r].chk.persisted = "online")
      => /\ alerts' = alerts
         /\ runs'[r].chk.done
         /\ runs'[r].chk.level = "none"

C39_CleanRecoveryResolvesAll == []C39_RecoveryState /\ [][C39_OnlineStep]_vars

\* the recovery resolved the open disaster alert and its own information alert
C39_Witness ==
    /\ runs[1].chk.dev = 1 /\ runs[1].chk.done
    /\ runs[1].chk.previousStatus = "offline"
    /\ runs[1].chk.persisted = "online"
    /\ runs[1].chk.faults = {}
    /\ alerts[1].resolved
    /\ \E a \in runs[1].chk.created : alerts[a].resolved
    /\ Unresolved(1) = {}


(***************************************************************************)
(* C40: through the alert routes an alert is acknowledged at most once and *)
(* resolved at most once: a request for an alert that is acknowledged      *)
(* (resolved) already is refused and no save of a route writes to such a   *)
(* row; in every state resolved goes with resolvedAt, and acknowledged     *)
(* with acknowledgedBy and acknowledgedAt.                                 *)
(***************************************************************************)
C40_FieldsAgree ==
    \A a \in DOMAIN alerts :
        /\ alerts[a].resolved <=> alerts[a].resolvedAt # NoDate
        /\ alerts[a].acknowledged <=> alerts[a].acknowledgedAt # NoDate
        /\ alerts[a].acknowledged <=> alerts[a].acknowledgedBy # NULL

\* the row that the save of request r is about to write is marked already
Marked(r) ==
    /\ reqs[r].pc = "save"
    /\ reqs[r].id \in DOMAIN alerts
    /\ \/ reqs[r].op = "acknowledge" /\ alerts[reqs[r].id].acknowledged
       \/ reqs[r].op = "resolve" /\ alerts[reqs[r].id].resolved

C40_RouteStep ==
    /\ \A r \in Reqs :
         (reqs[r].pc = "idle" /\ reqs'[r].pc = "save")
         => LET row == alerts[reqs'[r].id] IN
            /\ alerts' = alerts
            /\ (reqs'[r].op = "acknowledge" => ~row.acknowledged)
            /\ (reqs'[r].op = "resolve" => ~row.resolved)
    /\ \A r \in Reqs :
         (Marked(r) /\ reqs'[r].pc = "idle") => alerts' = alerts

C40_MarkedOnce == []C40_FieldsAgree /\ [][C40_RouteStep]_vars

\* the second of two acknowledge requests writes acknowledgedAt again
C40_SecondWrite ==
    \E r \in Reqs :
        /\ Marked(r)
        /\ reqs[r].op = "acknowledge"
        /\ alerts[reqs[r].id].acknowledgedAt # clock

=============================================================================
